---------------------------- MODULE Spec2Model ----------------------------
(***************************************************************************)
(* cppurcu: a user-space RCU snapshot container.                           *)
(*                                                                         *)
(* A storage<T> (cell) owns a source<T> (an atomic shared_ptr value_ and   *)
(* an atomic version_) and a local<T> whose per-thread tls_value_t slot    *)
(* caches (version, ptr, value).  guard<T> objects count themselves in     *)
(* the slot's ref_count; the guard that moves ref_count from 0 to 1        *)
(* reconciles the slot with the source.  reclaimer_thread keeps retired    *)
(* handles and drops those it owns alone.                                  *)
(*                                                                         *)
(* Every step of the model holds at most one access to shared memory       *)
(* (value_, version_, a shared_ptr control block, the reclaimer's mutex    *)
(* protected section), so the interleavings of the model are those of the  *)
(* atomics of the program.  A shared_ptr to a T is the T's identity (a     *)
(* positive number); the empty shared_ptr / nullptr is Null.  A T's        *)
(* use_count is the number of places holding its identity.                 *)
(***************************************************************************)
EXTENDS Integers, Sequences, FiniteSets, TLC

\* ---------------------------------------------------------------- bounds
\* Number of update() calls started on one cell.
MaxPub == 2
\* Number of guards one thread holds at a time.
MaxDepth == 2

\* ------------------------------------------------------------ universes
Threads == {"t1", "t2"}
Cells == {1, 2}
\* nullptr, the empty shared_ptr.
Null == 0
\* Who ran a destructor: a thread of the user, the reclaimer's worker, or no one yet.
NoOne == "none"
User == "user"
Reclaimer == "reclaimer"
\* Identities of the T objects: one initial value per cell, then one per update.
Vals == 1 .. (Cardinality(Cells) * (MaxPub + 1))

VARIABLES
  \* source<T>
  value_,          \* [cell -> handle]     satomic<const T> value_
  version_,        \* [cell -> uint64]     std::atomic<uint64_t> version_
  reclaimer_,      \* [cell -> BOOLEAN]    reclaimer_ != nullptr
  self_allocator_, \* uint64              tls_instance::self_allocator_, the last
                   \*  self_ given: a cell is named by the self_ of its local_'s
                   \*  tls_instance, the key of its slots in the threads' maps
  \* local<T>::tls_value_ : one tls_value_t per (cell, thread)
  tls,             \* [cell -> [thread -> tls_value_t]]
  \* the threads of the program
  pc,              \* [thread -> position in the operation it runs]
  cur,             \* [thread -> cell the running operation is on]
  new_version,     \* [thread -> version read by source::load]
  value,           \* [thread -> handle passed to update()]
  old,             \* [thread -> local `old` of source::update]
  with_release,    \* [thread -> the running load is load_with_tls_release()]
  guards,          \* [thread -> sequence of the live guards it holds]
  \* reclaimer_thread
  ptrs_,           \* set of handles      std::unordered_set ptrs_
  notified_,       \* BOOLEAN
  unique_ptrs,     \* set of handles      worker_loop's local vector
  reclaim_interval_, \* 0, or 1 for any positive interval
  wpc,             \* position of the worker in worker_loop
  stop_,           \* BOOLEAN            std::atomic<bool> stop_
  dpc,             \* position of the thread that runs ~reclaimer_thread
  \* the heap
  cells,           \* set of constructed cells
  nextVal,         \* identity of the next T to be made
  dtorBy,          \* [T -> who ran its destructor (User, Reclaimer), or NoOne]
  \* history (not program state)
  stored,          \* [cell -> sequence of the handles value_ has held, the
                   \*  constructor's first]
  storeIdx,        \* [thread -> index in stored of the running update's store]
  returned,        \* [cell -> highest store index whose update() has returned]
  tlsIdx,          \* [cell -> [thread -> index in stored of the handle the slot
                   \*  took last, 0 before the first]]
  need,            \* [thread -> `returned` when its running outermost load began]
  prevVer,         \* [cell -> [thread -> tls.version when its previous outermost load ended]]
  lastCtl,         \* [cell -> [thread -> call: the last call that wrote the
                   \*  slot's to_release since a guard is live; tls: the last
                   \*  of them made through a guard's tls; closed: `call` and
                   \*  the kind of the last guard when the slot's guards were
                   \*  all gone, until the next guard on the slot]]
  pack,            \* [thread -> the make_guard_pack call it runs or the guard_pack
                   \*  it holds: phase; args, the cells in argument order; order,
                   \*  the argument indices in the order of their evaluation;
                   \*  base, the guards the thread held at the call; before
                   \*  (history), its slots' ref_count at the call]
  audit            \* the history that is recorded: "tls" (the guards' kinds and
                   \*  lastCtl), "load" (the guards' need), "order" (the guards'
                   \*  need and prev) or "none"

vars == << value_, version_, reclaimer_, tls, pc, cur, new_version, value, old,
           with_release, guards, ptrs_, notified_, unique_ptrs, reclaim_interval_,
           wpc, stop_, dpc, cells, nextVal, dtorBy, stored, storeIdx, returned, tlsIdx,
           need, prevVer, lastCtl, pack, self_allocator_, audit >>

cellVars == << value_, version_, reclaimer_, cells, stored, self_allocator_, audit >>
\* The source's variables, and what no step of a load, an update or the
\* worker changes.
srcVars == << cellVars, pack >>
recVars == << ptrs_, notified_, unique_ptrs, reclaim_interval_, wpc, stop_, dpc >>
updVars == << value, old, storeIdx, returned, nextVal >>

\* ------------------------------------------------------------- helpers
Max(a, b) == IF a >= b THEN a ELSE b

\* uint64_t arithmetic.  The model's versions stay far below 2^63; the one
\* value above that, 2^64 - 1 (0 decremented), is written -1, its reading
\* as a two's complement number, so that equality is equality modulo 2^64.
Dec64(v) == v - 1
Inc64(v) == v + 1

\* tls_value_t's default member initialisers.
tls_value_t == [init |-> FALSE, version |-> 0, ptr |-> Null, ref_count |-> 0,
                to_release |-> FALSE, value |-> Null]

\* shared_ptr::use_count(): the number of holders of T v.
UseCount(v) ==
    Cardinality({c \in Cells : value_[c] = v})
  + Cardinality({ct \in Cells \X Threads : tls[ct[1]][ct[2]].value = v})
  + Cardinality({t \in Threads : value[t] = v})
  + Cardinality({t \in Threads : old[t] = v})
  + (IF v \in ptrs_ THEN 1 ELSE 0)
  + (IF v \in unique_ptrs THEN 1 ELSE 0)

\* ~T() runs on the thread that drops the last handle: the Ts held before the
\* step and by no one after it.
Destroy(who) ==
  dtorBy' = [v \in Vals |->
               IF dtorBy[v] = NoOne /\ UseCount(v) > 0 /\ UseCount(v)' = 0
               THEN who ELSE dtorBy[v]]

Alive(v) == dtorBy[v] = NoOne


\* A thread that neither builds nor holds a guard_pack.
NoPack == [phase |-> "none", args |-> << >>, order |-> << >>, base |-> 0,
           before |-> << >>]

\* lastCtl of a slot no live guard has changed the to_release of.
NoCall == [call |-> "none", tls |-> "none", closed |-> << "none", FALSE >>]

\* A map that is not thread_local: one slot of the cell for all the threads.
SetTlsStatic(c, t, s) == [tls EXCEPT ![c] = [u \in Threads |-> s]]

\* A thread's map with one slot for all the cells.
SetTlsShared(c, t, s) == [d \in Cells |-> [tls[d] EXCEPT ![t] = s]]

\* tls_instance::ref(), `storage_()[self_]`: the calling thread's slot of the
\* cell is the one written.
SetTls(c, t, s) == [tls EXCEPT ![c][t] = s]
RemoveAt(q, i) == [j \in 1 .. (Len(q) - 1) |-> IF j < i THEN q[j] ELSE q[j + 1]]

\* ------------------------------------------------------------------ Init
InitWith(rec, interval, aud, inits) ==
  /\ cells = {1}
  /\ self_allocator_ = 1
  /\ audit = aud
  /\ \E v \in inits : value_ = [c \in Cells |-> IF c = 1 THEN v ELSE Null]
  /\ version_ = [c \in Cells |-> 0]
  /\ reclaimer_ = [c \in Cells |-> rec]
  /\ reclaim_interval_ = interval
  /\ tls = [c \in Cells |-> [t \in Threads |-> tls_value_t]]
  /\ pc = [t \in Threads |-> "idle"]
  /\ cur = [t \in Threads |-> 1]
  /\ new_version = [t \in Threads |-> 0]
  /\ value = [t \in Threads |-> Null]
  /\ old = [t \in Threads |-> Null]
  /\ with_release = [t \in Threads |-> FALSE]
  /\ guards = [t \in Threads |-> << >>]
  /\ ptrs_ = {}
  /\ notified_ = FALSE
  /\ unique_ptrs = {}
  /\ wpc = "wait"
  /\ stop_ = FALSE
  /\ dpc = "none"
  /\ nextVal = Cardinality(Cells) + 1
  /\ dtorBy = [v \in Vals |-> NoOne]
  /\ stored = [c \in Cells |-> << value_[c] >>]
  /\ storeIdx = [t \in Threads |-> 0]
  /\ returned = [c \in Cells |-> 1]
  /\ tlsIdx = [c \in Cells |-> [t \in Threads |-> 0]]
  /\ need = [t \in Threads |-> 0]
  /\ prevVer = [c \in Cells |-> [t \in Threads |-> 0]]
  /\ lastCtl = [c \in Cells |-> [t \in Threads |-> NoCall]]
  /\ pack = [t \in Threads |-> NoPack]

\* ------------------------------------------------- guard<T>, local<T>
\* A constructor that reconciles whatever the count.
NestedNever(ref_count) == FALSE

\* guard::guard(tls_value, source): `if (tls_value_.ref_count++ > 0) return;`
Nested(ref_count) == ref_count > 0

\* A source::load(uint64_t) that finds every cached version current.
UpToDateAlways(value_version, version) == TRUE

\* source::load(uint64_t): `if (value_version == version) return {value_version, nullptr};`
UpToDate(value_version, version) == value_version = version

\* A constructor that takes the empty handle source::load(uint64_t) returns on
\* an equal version and a published empty handle for the same.
ChangedByHandle(new_ver, new_source, s) == new_source # Null

\* guard::guard: `if (...; new_version != tls_value_.version)`, on the pair
\* source::load(uint64_t) returned.
Changed(new_ver, new_source, s) == new_ver # s.version

\* A slot that takes the pointer and not the handle.
InstallNoHandle(s, new_ver, new_source) ==
  [s EXCEPT !.version = new_ver, !.ptr = new_source]

\* The slow path of guard::guard and the first touch of local::load.
Install(s, new_ver, new_source) ==
  [s EXCEPT !.version = new_ver, !.ptr = new_source, !.value = new_source]

\* guard::guard(tls_value, source, to_release): the body after the delegation.
Ctor3(s, rel) == [s EXCEPT !.to_release = rel]

\* local::load_with_release(): local::load() with the three-argument
\* constructor, which sets the slot's to_release.
LoadWithRelease(s) == Ctor3(s, TRUE)

\* A load() that builds its guard with the three-argument constructor and
\* to_release == false.
LoadCtorThree(s, rel) == Ctor3(s, rel)

\* What the constructor called by the load does to the slot s the
\* two-argument constructor left: local::load() calls
\* `guard<T>(tls_value, source_)` and nothing more, load_with_release() the
\* three-argument one.
LoadCtor(s, rel) == IF rel THEN LoadWithRelease(s) ELSE s

\* guard::operator bool
GuardBool(s) == s.ptr # Null

\* The guard is constructed and returned to the caller: s is the slot as the
\* two-argument constructor left it.
\* The guard remembers (history) the pointer it gave, `returned` when its
\* load began and the version the load before it left in the slot.
LoadDone(c, t, s, rel, nd) ==
  /\ tls' = SetTls(c, t, LoadCtor(s, rel))
  /\ guards' = [guards EXCEPT ![t] =
                  Append(@, [cell |-> c, release |-> rel /\ audit = "tls",
                             ptr |-> s.ptr, moved_ |-> FALSE,
                             need |-> IF audit \in {"load", "order"} THEN nd ELSE 0,
                             prev |-> IF audit = "order" THEN prevVer[c][t] ELSE 0])]
  /\ pc' = [pc EXCEPT ![t] = "idle"]
  /\ lastCtl' = IF audit # "tls" THEN lastCtl
                ELSE IF s.ref_count = 1
                THEN [lastCtl EXCEPT ![c][t] =
                        [NoCall EXCEPT !.call = IF rel THEN "load_with_tls_release"
                                                ELSE "none"]]
                ELSE IF rel
                THEN [lastCtl EXCEPT ![c][t].call = "nested load_with_tls_release"]
                ELSE lastCtl

\* What an outermost load that ends leaves for the next one to compare with.
Observed(c, t, ver) ==
  /\ prevVer' = [prevVer EXCEPT ![c][t] = ver]
  /\ need' = [need EXCEPT ![t] = 0]

\* source::load(uint64_t), its read of version_, by the outermost guard.
VersionStep(c, t, s, rel, nd) ==
  IF UpToDate(s.version, version_[c])
  THEN /\ LoadDone(c, t, s, rel, nd)
       /\ Observed(c, t, s.version)
       /\ UNCHANGED << new_version, cur, with_release >>
  ELSE /\ tls' = SetTls(c, t, s)
       /\ need' = [need EXCEPT ![t] = nd]
       /\ new_version' = [new_version EXCEPT ![t] = version_[c]]
       /\ pc' = [pc EXCEPT ![t] = "guard_value"]
       /\ cur' = [cur EXCEPT ![t] = c]
       /\ with_release' = [with_release EXCEPT ![t] = rel]
       /\ UNCHANGED << guards, lastCtl, prevVer >>

\* storage::load() / storage::load_with_tls_release() up to the first access
\* to the source.  The thread holds fewer than `depth` guards.
Load(c, t, rel, depth) ==
  /\ pc[t] = "idle"
  /\ c \in cells
  /\ Len(guards[t]) < depth
  /\ LET s == tls[c][t] IN
       IF ~s.init
       THEN \* local::load: source_.load() reads version_
            /\ new_version' = [new_version EXCEPT ![t] = version_[c]]
            /\ pc' = [pc EXCEPT ![t] = "init_value"]
            /\ cur' = [cur EXCEPT ![t] = c]
            /\ with_release' = [with_release EXCEPT ![t] = rel]
            /\ need' = [need EXCEPT ![t] = returned[c]]
            /\ UNCHANGED << tls, guards, lastCtl, prevVer >>
       ELSE IF Nested(s.ref_count)
       THEN /\ LoadDone(c, t, [s EXCEPT !.ref_count = @ + 1], rel, returned[c])
            /\ UNCHANGED << new_version, cur, with_release, need, prevVer >>
       ELSE VersionStep(c, t, [s EXCEPT !.ref_count = @ + 1], rel, returned[c])
  /\ UNCHANGED << srcVars, recVars, updVars, dtorBy, tlsIdx >>

\* local::load: source_.load() reads value_; the slot is initialised and the
\* guard's constructor counts itself.
LoadInitValue(t) ==
  /\ pc[t] = "init_value"
  /\ LET c == cur[t]
         s0 == Install([tls[c][t] EXCEPT !.init = TRUE], new_version[t], value_[c])
         s == [s0 EXCEPT !.ref_count = @ + 1]
     IN /\ tlsIdx' = [tlsIdx EXCEPT ![c][t] = Len(stored[c])]
        /\ IF Nested(s0.ref_count)
           THEN /\ LoadDone(c, t, s, with_release[t], need[t])
                /\ Observed(c, t, s.version)
           ELSE /\ tls' = SetTls(c, t, s)
                /\ pc' = [pc EXCEPT ![t] = "guard_version"]
                /\ UNCHANGED << guards, lastCtl, prevVer, need >>
  /\ UNCHANGED << srcVars, recVars, updVars, dtorBy, new_version, cur,
                  with_release >>

\* guard::guard after a first touch: source.load(tls_value_.version) reads version_.
GuardVersion(t) ==
  /\ pc[t] = "guard_version"
  /\ VersionStep(cur[t], t, tls[cur[t]][t], with_release[t], need[t])
  /\ UNCHANGED << srcVars, recVars, updVars, dtorBy, tlsIdx >>

\* A reader that waits while a publish is between its store and its bump.
GuardValueWaits(t) ==
  /\ pc[t] = "guard_value"
  /\ \A w \in Threads : ~(pc[w] = "update_version" /\ cur[w] = cur[t])
  /\ LET c == cur[t]
         s == tls[c][t]
         chg == Changed(new_version[t], value_[c], s)
         s1 == IF chg THEN Install(s, new_version[t], value_[c]) ELSE s
     IN /\ LoadDone(c, t, s1, with_release[t], need[t])
        /\ tlsIdx' = [tlsIdx EXCEPT ![c][t] = IF chg THEN Len(stored[c]) ELSE @]
        /\ Observed(c, t, s1.version)
  /\ UNCHANGED << srcVars, recVars, updVars, new_version, cur, with_release >>
  /\ Destroy(User)

\* guard::guard: source.load(tls_value_.version) reads value_, and the slot
\* takes the new version, pointer and handle; the handle it held is dropped.
GuardValue(t) ==
  /\ pc[t] = "guard_value"
  /\ LET c == cur[t]
         s == tls[c][t]
         chg == Changed(new_version[t], value_[c], s)
         s1 == IF chg THEN Install(s, new_version[t], value_[c]) ELSE s
     IN /\ LoadDone(c, t, s1, with_release[t], need[t])
        /\ tlsIdx' = [tlsIdx EXCEPT ![c][t] = IF chg THEN Len(stored[c]) ELSE @]
        /\ Observed(c, t, s1.version)
  /\ UNCHANGED << srcVars, recVars, updVars, new_version, cur, with_release >>
  /\ Destroy(User)

\* A destructor that only counts.
GuardDtorCounts(s) == [s EXCEPT !.ref_count = @ - 1]

\* A destructor that leaves the slot's version as it is.
GuardDtorKeepVersion(s) ==
  LET s1 == [s EXCEPT !.ref_count = @ - 1] IN
    IF s1.ref_count > 0 THEN s1
    ELSE IF s1.to_release = FALSE THEN s1
    ELSE [s1 EXCEPT !.ptr = Null, !.value = Null, !.to_release = FALSE]

\* A destructor that releases without looking at the count.
GuardDtorEager(s) ==
  LET s1 == [s EXCEPT !.ref_count = @ - 1] IN
    IF s1.to_release = FALSE THEN s1
    ELSE [s1 EXCEPT !.version = Dec64(@), !.ptr = Null, !.value = Null,
                    !.to_release = FALSE]

\* guard::~guard on the slot (moved_ == false).
GuardDtor(s) ==
  LET s1 == [s EXCEPT !.ref_count = @ - 1] IN
    IF s1.ref_count > 0 THEN s1
    ELSE IF s1.to_release = FALSE THEN s1
    ELSE [s1 EXCEPT !.version = Dec64(@), !.ptr = Null, !.value = Null,
                    !.to_release = FALSE]

\* A destructor that takes every guard for moved-from.
GuardDtorOfNone(g, s) == s

\* A destructor that takes no guard for moved-from.
GuardDtorOfAny(g, s) == GuardDtor(s)

\* guard::~guard of guard g on its slot s: `if (moved_ == true) return;`
GuardDtorOf(g, s) == IF g.moved_ THEN s ELSE GuardDtor(s)

\* The i-th guard thread t holds goes out of scope.
Dtor(t, i) ==
  /\ pc[t] = "idle"
  /\ i \in 1 .. Len(guards[t])
  /\ LET c == guards[t][i].cell
         s == GuardDtorOf(guards[t][i], tls[c][t])
     IN /\ tls' = SetTls(c, t, s)
        /\ lastCtl' = IF s.ref_count = 0 /\ audit = "tls"
                      THEN [lastCtl EXCEPT ![c][t] =
                              [call |-> "none", tls |-> "none",
                               closed |-> << lastCtl[c][t].call, guards[t][i].release >>]]
                      ELSE lastCtl
  /\ guards' = [guards EXCEPT ![t] = RemoveAt(@, i)]
  /\ UNCHANGED << srcVars, recVars, updVars, pc, cur, new_version, with_release,
                  tlsIdx, need, prevVer >>
  /\ Destroy(User)

\* guard::tls_t::schedule_release() and retain() on the slot's to_release.
ScheduleRelease(s) == [s EXCEPT !.to_release = TRUE]
RetainNothing(s) == s
Retain(s) == [s EXCEPT !.to_release = FALSE]

\* guard::tls_t::schedule_release / retain through the i-th guard of thread t.
TlsScheduleRelease(t, i) ==
  /\ pc[t] = "idle"
  /\ i \in 1 .. Len(guards[t])
  /\ LET c == guards[t][i].cell IN
       /\ tls' = SetTls(c, t, ScheduleRelease(tls[c][t]))
       /\ lastCtl' = IF audit = "tls"
                     THEN [lastCtl EXCEPT ![c][t].call = "schedule_release",
                                          ![c][t].tls = "schedule_release"]
                     ELSE lastCtl
  /\ UNCHANGED << srcVars, recVars, updVars, pc, cur, new_version, with_release,
                  guards, dtorBy, tlsIdx, need, prevVer >>

TlsRetain(t, i) ==
  /\ pc[t] = "idle"
  /\ i \in 1 .. Len(guards[t])
  /\ LET c == guards[t][i].cell IN
       /\ tls' = SetTls(c, t, Retain(tls[c][t]))
       /\ lastCtl' = IF audit = "tls"
                     THEN [lastCtl EXCEPT ![c][t].call = "retain", ![c][t].tls = "retain"]
                     ELSE lastCtl
  /\ UNCHANGED << srcVars, recVars, updVars, pc, cur, new_version, with_release,
                  guards, dtorBy, tlsIdx, need, prevVer >>

\* ------------------------------------------------------------ source<T>
\* update() calls started on cell c.
Started(c) ==
  Len(stored[c]) - 1 + Cardinality({t \in Threads : pc[t] = "update_store" /\ cur[t] = c})

\* storage::update(value) -> source::update: `auto old = value_.load(acquire)`.
\* The caller passes an empty handle or a handle to a T it has just made.
Update(c, t, v) ==
  /\ pc[t] = "idle"
  /\ c \in cells
  /\ Started(c) < MaxPub
  /\ v \in {Null, nextVal}
  /\ nextVal' = IF v = Null THEN nextVal ELSE nextVal + 1
  /\ value' = [value EXCEPT ![t] = v]
  /\ old' = [old EXCEPT ![t] = value_[c]]
  /\ pc' = [pc EXCEPT ![t] = "update_store"]
  /\ cur' = [cur EXCEPT ![t] = c]
  /\ UNCHANGED << srcVars, recVars, tls, new_version, with_release, guards, dtorBy,
                  storeIdx, returned, tlsIdx, need, prevVer, lastCtl >>

\* An update that waits for the cell's readers to leave before it stores.
UpdateStoreWaits(t) ==
  /\ pc[t] = "update_store"
  /\ \A r \in Threads : tls[cur[t]][r].ref_count = 0
  /\ LET c == cur[t] IN
       /\ value_' = [value_ EXCEPT ![c] = value[t]]
       /\ stored' = [stored EXCEPT ![c] = Append(@, value[t])]
       /\ storeIdx' = [storeIdx EXCEPT ![t] = Len(stored[c]) + 1]
  /\ pc' = [pc EXCEPT ![t] = "update_version"]
  /\ UNCHANGED << version_, reclaimer_, cells, pack, self_allocator_, audit, recVars, tls, cur, new_version, value,
                  old, with_release, guards, nextVal, returned, tlsIdx, need,
                  prevVer, lastCtl >>
  /\ Destroy(User)

\* source::update: `value_.store(value, release)`; value_ drops the handle it held.
UpdateStore(t) ==
  /\ pc[t] = "update_store"
  /\ LET c == cur[t] IN
       /\ value_' = [value_ EXCEPT ![c] = value[t]]
       /\ stored' = [stored EXCEPT ![c] = Append(@, value[t])]
       /\ storeIdx' = [storeIdx EXCEPT ![t] = Len(stored[c]) + 1]
  /\ pc' = [pc EXCEPT ![t] = "update_version"]
  /\ UNCHANGED << version_, reclaimer_, cells, pack, self_allocator_, audit, recVars, tls, cur, new_version, value,
                  old, with_release, guards, nextVal, returned, tlsIdx, need,
                  prevVer, lastCtl >>
  /\ Destroy(User)

\* A version that is not advanced, and one that goes back.
FetchNone(version) == version
FetchSub(version) == Dec64(version)

\* std::atomic<uint64_t>::fetch_add(1)
FetchAdd(version) == Inc64(version)

\* source::update: `version_.fetch_add(1, release)`.
UpdateVersion(t) ==
  /\ pc[t] = "update_version"
  /\ version_' = [version_ EXCEPT ![cur[t]] = FetchAdd(@)]
  /\ pc' = [pc EXCEPT ![t] = IF reclaimer_[cur[t]] THEN "update_push" ELSE "update_return"]
  /\ UNCHANGED << value_, reclaimer_, cells, stored, pack, self_allocator_, audit, recVars, updVars, tls, cur,
                  new_version, with_release, guards, dtorBy, tlsIdx, need, prevVer, lastCtl >>

\* reclaimer_thread::push(ptr), under lock_: the set after the call.
PushPtrs(set, ptr) == IF ptr = Null THEN set ELSE set \cup {ptr}

\* A push that notifies whatever it was given.
PushNotifiedAlways(set, ptr, notified) == TRUE

\* reclaimer_thread::push(ptr), under lock_: notified_ after the call.
PushNotified(set, ptr, notified) ==
  IF ptr = Null THEN notified
  ELSE IF ptr \in set THEN notified
  ELSE TRUE

\* source::update: `if (reclaimer_ != nullptr) reclaimer_->push(old)`.
UpdatePush(t) ==
  /\ pc[t] = "update_push"
  /\ ptrs_' = PushPtrs(ptrs_, old[t])
  /\ notified_' = PushNotified(ptrs_, old[t], notified_)
  /\ pc' = [pc EXCEPT ![t] = "update_return"]
  /\ UNCHANGED << srcVars, unique_ptrs, reclaim_interval_, wpc, stop_, dpc, updVars, tls,
                  cur, new_version, with_release, guards, dtorBy, tlsIdx, need, prevVer,
                  lastCtl >>

\* source::update: `reclaimer_->push(old)` throws: `ptrs_.insert(std::move(ptr))`
\* has to allocate a node for the handle and the allocation fails (or
\* lock_'s lock() fails).  Nothing in push or update catches: the exception
\* leaves update(), `old` and the caller's handle go out of scope, and
\* value_ and version_ stay as the two statements before the push left them.
UpdatePushThrows(t) ==
  /\ pc[t] = "update_push"
  /\ old[t] # Null
  /\ old' = [old EXCEPT ![t] = Null]
  /\ value' = [value EXCEPT ![t] = Null]
  /\ pc' = [pc EXCEPT ![t] = "idle"]
  /\ UNCHANGED << srcVars, recVars, tls, cur, new_version, with_release, guards,
                  nextVal, storeIdx, returned, tlsIdx, need, prevVer, lastCtl >>
  /\ Destroy(User)

\* source::update returns: `old` and the caller's handle go out of scope.
UpdateReturn(t) ==
  /\ pc[t] = "update_return"
  /\ old' = [old EXCEPT ![t] = Null]
  /\ value' = [value EXCEPT ![t] = Null]
  /\ returned' = [returned EXCEPT ![cur[t]] = Max(@, storeIdx[t])]
  /\ pc' = [pc EXCEPT ![t] = "idle"]
  /\ UNCHANGED << srcVars, recVars, tls, cur, new_version, with_release, guards,
                  nextVal, storeIdx, tlsIdx, need, prevVer, lastCtl >>
  /\ Destroy(User)

\* ----------------------------------------------------- reclaimer_thread
\* A scan that takes every handle of the set.
SharedNever(v) == FALSE

\* worker_loop's scan: `if ((*it).use_count() > 1) { ++it; continue; }`
Shared(v) == UseCount(v) > 1

\* worker_loop: `while (stop_.load(acquire) == false)` as the worker comes
\* back to the head of its loop: on to the wait, or out of the loop.
LoopHead == IF stop_ THEN "exited" ELSE "wait"

\* A wait that ends at once in either mode.
WaitOverAlways == TRUE

\* A wait without predicate: only the interval ends it, and a notification
\* given while the worker was not waiting is lost.
WaitOverTimed == reclaim_interval_ # 0

\* A wait that only a notification ends.
WaitOverNotified == notified_

\* cond_.wait(guard, pred) / cond_.wait_for(guard, reclaim_interval_, pred):
\* the wait ends when pred holds, or the positive interval has passed.
WaitOver == notified_ \/ reclaim_interval_ # 0

\* A scan that drops the handles it owns alone where it finds them, under lock_.
WorkerScanDrops ==
  /\ wpc = "wait"
  /\ WaitOver
  /\ notified_' = FALSE
  /\ ptrs_' = {v \in ptrs_ : Shared(v)}
  /\ wpc' = LoopHead
  /\ UNCHANGED << srcVars, unique_ptrs, reclaim_interval_, stop_, dpc, updVars, tls, pc,
                  cur, new_version, with_release, guards, tlsIdx, need, prevVer,
                  lastCtl >>
  /\ Destroy(Reclaimer)

\* worker_loop under lock_: the wait, pred's reset of notified_, and the scan
\* that moves the handles the reclaimer owns alone to unique_ptrs.
WorkerScan ==
  /\ wpc = "wait"
  /\ WaitOver
  /\ notified_' = FALSE
  /\ LET uniq == {v \in ptrs_ : ~Shared(v)} IN
       /\ unique_ptrs' = unique_ptrs \cup uniq
       /\ ptrs_' = ptrs_ \ uniq
       \* clear() of an empty vector touches nothing: the loop is back at its head
       /\ wpc' = IF uniq = {} THEN LoopHead ELSE "clear"
  /\ UNCHANGED << srcVars, reclaim_interval_, stop_, dpc, updVars, tls, pc, cur,
                  new_version, with_release, guards, dtorBy, tlsIdx, need, prevVer,
                  lastCtl >>

\* worker_loop outside lock_: `unique_ptrs.clear()`.
WorkerClear ==
  /\ wpc = "clear"
  /\ unique_ptrs' = {}
  /\ wpc' = LoopHead
  /\ UNCHANGED << srcVars, ptrs_, notified_, reclaim_interval_, stop_, dpc, updVars, tls,
                  pc, cur, new_version, with_release, guards, tlsIdx, need, prevVer,
                  lastCtl >>
  /\ Destroy(Reclaimer)

\* ------------------------------------------------------------- lifetimes
\* worker_loop: `while (stop_.load(acquire) == false)` read after stop_ was
\* set, by a worker that had not yet started to wait.
WorkerExit ==
  /\ wpc = "wait"
  /\ stop_
  /\ wpc' = "exited"
  /\ UNCHANGED << srcVars, ptrs_, notified_, unique_ptrs, reclaim_interval_, stop_, dpc,
                  updVars, tls, pc, cur, new_version, with_release, guards, dtorBy,
                  tlsIdx, need, prevVer, lastCtl >>

\* A ~storage that takes the cell's slots out of the threads' maps.
DestroyStorageErases(c) ==
  /\ c \in cells
  /\ \A t \in Threads :
       /\ pc[t] \in {"idle", "exited"}
       /\ \A i \in 1 .. Len(guards[t]) : guards[t][i].cell # c
  /\ cells' = cells \ {c}
  /\ value_' = [value_ EXCEPT ![c] = Null]
  /\ tls' = [tls EXCEPT ![c] = [t \in Threads |-> tls_value_t]]
  /\ UNCHANGED << version_, reclaimer_, stored, pack, self_allocator_, audit, recVars, updVars, pc, cur,
                  new_version, with_release, guards, tlsIdx, need, prevVer, lastCtl >>
  /\ Destroy(User)

\* ~storage (implicit) when the storage's scope ends, no operation running on
\* it and no guard of it live: ~local and ~tls_instance() {} leave every
\* thread's slot in its thread_local map, and ~source drops value_'s handle
\* on the thread that destroys the storage.
DestroyStorage(c) ==
  /\ c \in cells
  /\ \A t \in Threads :
       /\ pc[t] \in {"idle", "exited"}
       /\ \A i \in 1 .. Len(guards[t]) : guards[t][i].cell # c
  /\ cells' = cells \ {c}
  /\ value_' = [value_ EXCEPT ![c] = Null]
  /\ UNCHANGED << version_, reclaimer_, stored, pack, self_allocator_, audit, recVars, updVars, tls, pc, cur,
                  new_version, with_release, guards, tlsIdx, need, prevVer, lastCtl >>
  /\ Destroy(User)

\* A key that is the last one given: the key of a cell that may be gone.
SelfLast(allocator) == allocator

\* tls_instance: `uint64_t self_ = self_allocator_.fetch_add(1, relaxed) + 1`,
\* the key of the instance constructed when the counter is `allocator`.
Self(allocator) == allocator + 1

\* storage::storage(init_value, nullptr): a new cell without reclaimer, with a
\* T just made as its initial value.  source's value_ takes the handle,
\* version_ starts at 0, and local_'s tls_instance takes its key self_; no
\* thread's map is touched.
ConstructStorage ==
  LET c == Self(self_allocator_) IN
    /\ c \in Cells \ cells
    /\ nextVal \in Vals
    /\ self_allocator_' = FetchAdd(self_allocator_)
    /\ cells' = cells \cup {c}
    /\ value_' = [value_ EXCEPT ![c] = nextVal]
    /\ version_' = [version_ EXCEPT ![c] = 0]
    /\ reclaimer_' = [reclaimer_ EXCEPT ![c] = FALSE]
    /\ nextVal' = nextVal + 1
    /\ stored' = [stored EXCEPT ![c] = << nextVal >>]
    /\ returned' = [returned EXCEPT ![c] = 1]
    /\ tlsIdx' = [tlsIdx EXCEPT ![c] = [t \in Threads |-> 0]]
    /\ prevVer' = [prevVer EXCEPT ![c] = [t \in Threads |-> 0]]
    /\ UNCHANGED << pack, audit, recVars, value, old, storeIdx, tls, pc, cur,
                    new_version, with_release, guards, dtorBy, need, lastCtl >>

\* A thread whose exit leaves its slots as they are.
ThreadExitKeeps(t) ==
  /\ pc[t] = "idle"
  /\ guards[t] = << >>
  /\ pc' = [pc EXCEPT ![t] = "exited"]
  /\ UNCHANGED << srcVars, recVars, updVars, cur, new_version, with_release, guards,
                  tls, tlsIdx, need, prevVer, lastCtl >>
  /\ Destroy(User)

\* Thread t, holding no guard, exits: its thread_local maps
\* (tls_instance::storage_()) are destroyed with every slot in them, on t.
ThreadExit(t) ==
  /\ pc[t] = "idle"
  /\ guards[t] = << >>
  /\ pc' = [pc EXCEPT ![t] = "exited"]
  /\ tls' = [c \in Cells |-> [tls[c] EXCEPT ![t] = tls_value_t]]
  /\ UNCHANGED << srcVars, recVars, updVars, cur, new_version, with_release, guards,
                  tlsIdx, need, prevVer, lastCtl >>
  /\ Destroy(User)

\* ~reclaimer_thread, run by the thread that drops the last
\* shared_ptr<reclaimer_thread> once no storage holds one:
\* `stop_.store(true, release)`.
ReclaimerStop ==
  /\ dpc = "none"
  /\ \A c \in cells : ~reclaimer_[c]
  /\ stop_' = TRUE
  /\ dpc' = "notify"
  /\ UNCHANGED << srcVars, ptrs_, notified_, unique_ptrs, reclaim_interval_, wpc,
                  updVars, tls, pc, cur, new_version, with_release, guards, dtorBy,
                  tlsIdx, need, prevVer, lastCtl >>

\* A destructor that wakes the waiters and leaves notified_ as it is.
ReclaimerNotifyOnly ==
  /\ dpc = "notify"
  /\ dpc' = "join"
  /\ UNCHANGED << srcVars, ptrs_, notified_, unique_ptrs, reclaim_interval_, wpc, stop_,
                  updVars, tls, pc, cur, new_version, with_release, guards, dtorBy,
                  tlsIdx, need, prevVer, lastCtl >>

\* ~reclaimer_thread under lock_: `notified_ = true; cond_.notify_all()`.
ReclaimerNotify ==
  /\ dpc = "notify"
  /\ notified_' = TRUE
  /\ dpc' = "join"
  /\ UNCHANGED << srcVars, ptrs_, unique_ptrs, reclaim_interval_, wpc, stop_,
                  updVars, tls, pc, cur, new_version, with_release, guards, dtorBy,
                  tlsIdx, need, prevVer, lastCtl >>

\* ~reclaimer_thread: `worker_.join()` returns once the worker has left its
\* loop; then the members are destroyed, ptrs_ with the handles left in it,
\* on the thread that destroys the reclaimer.
ReclaimerJoin ==
  /\ dpc = "join"
  /\ wpc = "exited"
  /\ ptrs_' = {}
  /\ dpc' = "done"
  /\ UNCHANGED << srcVars, notified_, unique_ptrs, reclaim_interval_, wpc, stop_,
                  updVars, tls, pc, cur, new_version, with_release, guards,
                  tlsIdx, need, prevVer, lastCtl >>
  /\ Destroy(User)

\* ------------------------------------------------------------ guard_pack
\* The argument lists of the make_guard_pack(storages...) calls.
PackArgs == {<< 1, 2 >>, << 1, 1, 2 >>}

\* The orders in which a build may evaluate the arguments
\* `storages.load()...` of the call in make_guard_pack(storage &...): the
\* language leaves the order of a call's arguments to the compiler.
EvalOrders(n) ==
  {o \in [1 .. n -> 1 .. n] : \A i, j \in 1 .. n : o[i] = o[j] => i = j}

\* The guards the make_guard_pack call of thread t has loaded so far.
Built(t) == Len(guards[t]) - pack[t].base

\* The cell of the argument the call of thread t evaluates next.
NextArg(t) == pack[t].args[pack[t].order[Built(t) + 1]]

\* destroy_guards<I>: of the pack's guards at positions lo .. hi of the
\* thread's guards, the one destroyed next, the first one.
DestroyNextFirst(lo, hi) == lo

\* destroy_guards<I>: `ptr->~guard(); if constexpr (I > 0) destroy_guards<I - 1>()`
\* from I = sizeof...(Ts) - 1: the one of the highest index.
DestroyNext(lo, hi) == hi

\* Thread t calls make_guard_pack(args...), holding fewer than MaxDepth guards.
MakeGuardPack(t, args, order) ==
  /\ pc[t] = "idle"
  /\ pack[t].phase = "none"
  /\ Len(guards[t]) < MaxDepth
  /\ \A i \in 1 .. Len(args) : args[i] \in cells
  /\ pack' = [pack EXCEPT ![t] =
                [phase |-> "load", args |-> args, order |-> order,
                 base |-> Len(guards[t]),
                 before |-> [c \in Cells |-> tls[c][t].ref_count]]]
  /\ UNCHANGED << cellVars, recVars, updVars, tls, pc, cur, new_version, with_release,
                  guards, dtorBy, tlsIdx, need, prevVer, lastCtl >>

\* make_guard_pack(storage &...): the next `storages.load()` of the call.
PackLoad(t) ==
  /\ pack[t].phase = "load"
  /\ Built(t) < Len(pack[t].args)
  /\ Load(NextArg(t), t, FALSE, Len(guards[t]) + 1)

\* The next `storages.load()` throws: tls_instance::ref(), `storage_()[self_]`,
\* has to create the thread's slot and the allocation fails.  The exception
\* leaves make_guard_pack through the temporaries built so far.
PackLoadThrows(t) ==
  /\ pc[t] = "idle"
  /\ pack[t].phase = "load"
  /\ Built(t) < Len(pack[t].args)
  /\ ~tls[NextArg(t)][t].init
  /\ pack' = [pack EXCEPT ![t] = IF Built(t) = 0 THEN NoPack
                                 ELSE [@ EXCEPT !.phase = "unwind"]]
  /\ UNCHANGED << cellVars, recVars, updVars, tls, pc, cur, new_version, with_release,
                  guards, dtorBy, tlsIdx, need, prevVer, lastCtl >>

\* The destructor of the i-th guard of thread t runs inside the call or the
\* pack, which goes on as p.
PackDtor(t, i, p) ==
  /\ pc[t] = "idle"
  /\ LET g == guards[t][i]
         c == g.cell
     IN /\ tls' = SetTls(c, t, GuardDtorOf(g, tls[c][t]))
        /\ guards' = [guards EXCEPT ![t] = RemoveAt(@, i)]
  /\ pack' = [pack EXCEPT ![t] = p]
  /\ UNCHANGED << cellVars, recVars, updVars, pc, cur, new_version, with_release,
                  tlsIdx, need, prevVer, lastCtl >>
  /\ Destroy(User)

\* The exception unwinds make_guard_pack: the temporaries are destroyed in
\* the reverse of the order they were built in, then the caller has it.
PackUnwind(t) ==
  /\ pack[t].phase = "unwind"
  /\ Built(t) > 0
  /\ PackDtor(t, Len(guards[t]), IF Built(t) = 1 THEN NoPack ELSE pack[t])

\* guard_pack::guard_pack -> construct_guards<0>: the temporaries are moved,
\* in the order of the arguments, into the pack's buffer (guard(guard &&):
\* `other.moved_ = true`).  The pack's guards come to stand after the guards
\* the thread held, the moved-from temporaries after them.
PackConstruct(t) ==
  /\ pc[t] = "idle"
  /\ pack[t].phase = "load"
  /\ Built(t) = Len(pack[t].args)
  /\ LET b == pack[t].base
         n == Len(pack[t].args)
         pos(i) == CHOOSE k \in 1 .. n : pack[t].order[k] = i
     IN guards' = [guards EXCEPT ![t] =
                     [j \in 1 .. (b + 2 * n) |->
                        IF j <= b THEN @[j]
                        ELSE IF j <= b + n THEN @[b + pos(j - b)]
                        ELSE [@[j - n] EXCEPT !.moved_ = TRUE]]]
  /\ pack' = [pack EXCEPT ![t].phase = "temps"]
  /\ UNCHANGED << cellVars, recVars, updVars, tls, pc, cur, new_version, with_release,
                  dtorBy, tlsIdx, need, prevVer, lastCtl >>

\* The full expression of make_guard_pack's return ends: the moved-from
\* temporaries are destroyed, and the caller holds the pack.
PackTemps(t) ==
  /\ pack[t].phase = "temps"
  /\ PackDtor(t, Len(guards[t]),
              IF Built(t) = Len(pack[t].args) + 1
              THEN [pack[t] EXCEPT !.phase = "held"] ELSE pack[t])

\* guard_pack::~guard_pack -> destroy_guards<sizeof...(Ts) - 1>, one guard a
\* step, when the guards made after the pack are gone.
PackDestroy(t) ==
  /\ pack[t].phase \in {"held", "destroy"}
  /\ Built(t) \in 1 .. Len(pack[t].args)
  /\ PackDtor(t, DestroyNext(pack[t].base + 1, Len(guards[t])),
              IF Built(t) = 1 THEN NoPack ELSE [pack[t] EXCEPT !.phase = "destroy"])

\* The steps of the threads in L that load, build a guard_pack in the scope
\* of the guards they hold, and leave their scopes, the innermost first.
PackNext(L) ==
  \/ \E t \in L, args \in PackArgs : \E order \in EvalOrders(Len(args)) :
       MakeGuardPack(t, args, order)
  \/ \E t \in L : PackLoad(t)
  \/ \E t \in L : PackLoadThrows(t)
  \/ \E t \in L : PackUnwind(t)
  \/ \E t \in L : PackConstruct(t)
  \/ \E t \in L : PackTemps(t)
  \/ \E t \in L : PackDestroy(t)
  \/ \E t \in L : LoadInitValue(t)
  \/ \E t \in L : GuardVersion(t)
  \/ \E t \in L : GuardValue(t)
  \/ \E t \in L, c \in Cells :
       pack[t].phase = "none" /\ Load(c, t, FALSE, 1)
  \/ \E t \in L :
       pack[t].phase = "none" /\ Dtor(t, Len(guards[t]))

\* ------------------------------------------------------------------ Spec
\* The steps of the threads in L that read, of those in C that use a guard's
\* tls handle, and of those in U that publish.
ReadNext(L, depth) ==
  \/ \E t \in L, c \in Cells, rel \in BOOLEAN : Load(c, t, rel, depth)
  \/ \E t \in L : LoadInitValue(t)
  \/ \E t \in L : GuardVersion(t)
  \/ \E t \in L : GuardValue(t)
  \/ \E t \in L, i \in 1 .. MaxDepth : Dtor(t, i)

TlsNext(C) ==
  \/ \E t \in C, i \in 1 .. MaxDepth : TlsScheduleRelease(t, i)
  \/ \E t \in C, i \in 1 .. MaxDepth : TlsRetain(t, i)

WriteNext(U, V) ==
  \/ \E t \in U, c \in Cells, v \in V : Update(c, t, v)
  \/ \E t \in U : UpdateStore(t)
  \/ \E t \in U : UpdateVersion(t)
  \/ \E t \in U : UpdateReturn(t)

\* A cell without reclaimer: t1 reads and publishes, t2 publishes.
Init == InitWith(FALSE, 0, "load", {Null, 1})
Next == ReadNext({"t1"}, MaxDepth) \/ TlsNext({"t1"}) \/ WriteNext(Threads, Vals \cup {Null})
Spec == Init /\ [][Next]_vars

\* A cell without reclaimer and with one writer: t1 reads, t2 publishes.
InitOrder == InitWith(FALSE, 0, "order", {Null, 1})
NextOrder == ReadNext({"t1"}, MaxDepth) \/ TlsNext({"t1"}) \/ WriteNext({"t2"}, Vals \cup {Null})
SpecOrder == InitOrder /\ [][NextOrder]_vars

\* A cell without reclaimer, the history of to_release recorded: t1 reads,
\* t2 publishes.
InitTls == InitWith(FALSE, 0, "tls", {Null, 1})
NextTls == ReadNext({"t1"}, MaxDepth) \/ TlsNext({"t1"}) \/ WriteNext({"t2"}, Vals \cup {Null})
SpecTls == InitTls /\ [][NextTls]_vars

\* A cell with a reclaimer of a positive interval and no empty handle: t1
\* reads, t2 reads with one guard at a time and publishes.
InitRec == InitWith(TRUE, 1, "none", {1})
NextRec ==
  \/ ReadNext({"t1"}, MaxDepth)
  \/ ReadNext({"t2"}, 1)
  \/ WriteNext({"t2"}, Vals)
  \/ \E t \in Threads : UpdatePush(t)
  \/ WorkerScan
  \/ WorkerClear
SpecRec == InitRec /\ [][NextRec]_vars

\* The same cell and reclaimer, t1 reading with one guard at a time and t2
\* publishing.  The worker is a thread of its own that the scheduler runs: its
\* timed wait ends and its loop goes on.
NextConv ==
  \/ ReadNext({"t1"}, 1)
  \/ WriteNext({"t2"}, Vals)
  \/ \E t \in Threads : UpdatePush(t)
  \/ WorkerScan
  \/ WorkerClear
SpecConv ==
  /\ InitRec
  /\ [][NextConv]_vars
  /\ WF_vars(WorkerScan)
  /\ WF_vars(WorkerClear)

\* The cell with its reclaimer from construction to destruction: t1 reads with
\* one guard at a time, t2 publishes, the threads exit, the storage and then
\* the reclaimer are destroyed.
LifeNext ==
  \/ \E c \in Cells : DestroyStorage(c)
  \/ \E t \in Threads : ThreadExit(t)
  \/ ReclaimerStop
  \/ ReclaimerNotify
  \/ ReclaimerJoin
  \/ WorkerExit
NextLife == NextConv \/ LifeNext
SpecLife == InitRec /\ [][NextLife]_vars

\* The cell with its reclaimer, t1 reading with one guard at a time and t2
\* publishing, when the reclaimer's push may fail to allocate.
NextFail ==
  \/ NextConv
  \/ \E t \in Threads : UpdatePushThrows(t)
SpecFail == InitRec /\ [][NextFail]_vars

\* A cell without reclaimer and one thread: t1 loads, uses its guards' tls
\* handles and publishes, one call after the other.
NextSolo ==
  \/ ReadNext({"t1"}, MaxDepth)
  \/ TlsNext({"t1"})
  \/ WriteNext({"t1"}, Vals \cup {Null})
SpecSolo == Init /\ [][NextSolo]_vars

\* The cell with a reclaimer of either mode, reclaim_interval 0 or positive,
\* from construction to destruction.  The scheduler runs the worker and the
\* thread that destroys the reclaimer: a wait whose predicate holds or whose
\* interval has passed ends, and the steps of the destructor are taken.  No
\* fairness is put on WorkerExit, the worker's read of stop_ before it ever
\* waits again: a worker that is in its wait leaves it only by WorkerScan.
InitStop == \E interval \in {0, 1} : InitWith(TRUE, interval, "none", {1})
SpecStop ==
  /\ InitStop
  /\ [][NextLife]_vars
  /\ WF_vars(WorkerScan)
  /\ WF_vars(WorkerClear)
  /\ WF_vars(ReclaimerNotify)
  /\ WF_vars(ReclaimerJoin)

\* The same cell and thread, the history of to_release recorded.
SpecSoloTls == InitTls /\ [][NextSolo]_vars

\* A cell without reclaimer and two readers: t1 and t2 load with one guard at
\* a time and use their guards' tls handles, t2 publishes.
NextReaders ==
  \/ ReadNext(Threads, 1)
  \/ TlsNext(Threads)
  \/ WriteNext({"t2"}, Vals)
InitReaders == InitWith(FALSE, 0, "none", {1})
SpecReaders == InitReaders /\ [][NextReaders]_vars

\* The cell with its reclaimer and two publishers: t1 and t2 call update()
\* at any time, source::update taking no lock.
NextWriters ==
  \/ WriteNext(Threads, Vals \cup {Null})
  \/ \E t \in Threads : UpdatePush(t)
  \/ WorkerScan
  \/ WorkerClear
SpecWriters == InitRec /\ [][NextWriters]_vars

\* The cell with a running reclaimer of either mode: t1 reads with one guard
\* at a time, t2 publishes, and the scheduler runs the worker.
SpecWake ==
  /\ InitStop
  /\ [][NextConv]_vars
  /\ WF_vars(WorkerScan)
  /\ WF_vars(WorkerClear)

\* Cells without reclaimer that come and go: the first cell is there from
\* the start, a second one is constructed later; t1 loads with one guard at a
\* time, schedules releases and exits, t2 publishes, MaxPub times in all.
InitCells == InitWith(FALSE, 0, "none", {1})
NextCells ==
  \/ ReadNext({"t1"}, 1)
  \/ TlsNext({"t1"})
  \/ \E c \in Cells, v \in Vals :
       /\ Started(1) + Started(2) < MaxPub
       /\ Update(c, "t2", v)
  \/ UpdateStore("t2")
  \/ UpdateVersion("t2")
  \/ UpdateReturn("t2")
  \/ ConstructStorage
  \/ \E c \in Cells : DestroyStorage(c)
  \/ ThreadExit("t1")
SpecCells == InitCells /\ [][NextCells]_vars

\* Two cells without reclaimer: t1 builds guard_packs over them and loads,
\* t2 publishes to them, MaxPub times in all.
InitPack ==
  /\ cells = Cells
  /\ self_allocator_ = Cardinality(Cells)
  /\ audit = "load"
  /\ value_ = [c \in Cells |-> c]
  /\ version_ = [c \in Cells |-> 0]
  /\ reclaimer_ = [c \in Cells |-> FALSE]
  /\ reclaim_interval_ = 0
  /\ tls = [c \in Cells |-> [t \in Threads |-> tls_value_t]]
  /\ pc = [t \in Threads |-> "idle"]
  /\ cur = [t \in Threads |-> 1]
  /\ new_version = [t \in Threads |-> 0]
  /\ value = [t \in Threads |-> Null]
  /\ old = [t \in Threads |-> Null]
  /\ with_release = [t \in Threads |-> FALSE]
  /\ guards = [t \in Threads |-> << >>]
  /\ ptrs_ = {}
  /\ notified_ = FALSE
  /\ unique_ptrs = {}
  /\ wpc = "wait"
  /\ stop_ = FALSE
  /\ dpc = "none"
  /\ nextVal = Cardinality(Cells) + 1
  /\ dtorBy = [v \in Vals |-> NoOne]
  /\ stored = [c \in Cells |-> << value_[c] >>]
  /\ storeIdx = [t \in Threads |-> 0]
  /\ returned = [c \in Cells |-> 1]
  /\ tlsIdx = [c \in Cells |-> [t \in Threads |-> 0]]
  /\ need = [t \in Threads |-> 0]
  /\ prevVer = [c \in Cells |-> [t \in Threads |-> 0]]
  /\ lastCtl = [c \in Cells |-> [t \in Threads |-> NoCall]]
  /\ pack = [t \in Threads |-> NoPack]
NextPack ==
  \/ PackNext({"t1"})
  \/ \E c \in Cells, v \in Vals :
       /\ Started(1) + Started(2) < MaxPub
       /\ Update(c, "t2", v)
  \/ UpdateStore("t2")
  \/ UpdateVersion("t2")
  \/ UpdateReturn("t2")
SpecPack == InitPack /\ [][NextPack]_vars

\* ---------------------------------------------------------------- claims
\* The guards thread t holds on cell c, by position in guards[t].
Held(t, c) == {i \in 1 .. Len(guards[t]) : guards[t][i].cell = c}

\* The guard a load by thread t has just returned, in the state after the step.
Returned(t) == guards'[t][Len(guards'[t])]

\* A load by thread t returns in this step / and its guard is the only one on its slot.
LoadEnds(t) == Len(guards'[t]) = Len(guards[t]) + 1
OutermostLoadEnds(t) ==
  /\ LoadEnds(t)
  /\ tls'[Returned(t).cell][t].ref_count = 1

UpdatePcs == {"update_store", "update_version", "update_push", "update_return"}

\* No update() on cell c is between its call and its return.
Quiescent(c) == \A t \in Threads : ~(pc[t] \in UpdatePcs /\ cur[t] = c)

\* C1 -- snapshot isolation: while a thread holds guards on a cell, each of
\* them gave the pointer the earliest of them gave, and the slot they read
\* through still has it, whatever was published in between.
C1_SnapshotIsolation ==
  \A t \in Threads : \A i \in 1 .. Len(guards[t]) :
    LET g == guards[t][i] IN
      /\ tls[g.cell][t].ptr = g.ptr
      /\ \A j \in Held(t, g.cell) : guards[t][j].ptr = g.ptr

\* t1 holds two guards; the second load began after a publish that the slot
\* has not taken had returned, and gave the first guard's pointer.
C1_Witness ==
  /\ Len(guards["t1"]) = 2
  /\ guards["t1"][2].need > tlsIdx[1]["t1"]
  /\ guards["t1"][2].ptr = guards["t1"][1].ptr
  /\ value_[1] # guards["t1"][1].ptr

\* C2 -- no premature destruction: the T a live guard gave a pointer to, and
\* the T its slot points to now, has not been destroyed.
C2_NoPrematureDestruction ==
  \A t \in Threads : \A i \in 1 .. Len(guards[t]) :
    LET g == guards[t][i] IN
      /\ g.ptr # Null => Alive(g.ptr)
      /\ tls[g.cell][t].ptr # Null => Alive(tls[g.cell][t].ptr)

\* t1 holds a guard for a T the cell has replaced; the reclaimer, which the
\* T was pushed to, has scanned since and kept it, and has destroyed another.
C2_Witness ==
  /\ Len(guards["t1"]) >= 1
  /\ guards["t1"][1].ptr # Null
  /\ guards["t1"][1].ptr \in ptrs_
  /\ value_[1] # guards["t1"][1].ptr
  /\ ~notified_
  /\ wpc = "wait"
  /\ \E v \in Vals : dtorBy[v] = Reclaimer

\* C3 -- freshness: an outermost load returns the handle the cell held at
\* some store no earlier than the last update() that had returned when the
\* load began; with every publish complete that is the last published value.
C3_Freshness ==
  [][\A t \in Threads : OutermostLoadEnds(t) =>
       LET g == Returned(t)
           c == g.cell
       IN /\ tlsIdx'[c][t] >= g.need
          /\ g.ptr = stored[c][tlsIdx'[c][t]]
          /\ tls'[c][t].ptr = g.ptr
          /\ (g.need = Len(stored[c]) => g.ptr = stored[c][Len(stored[c])])]_vars

\* t1 holds one guard from a load that began after the second handle of the
\* cell had been published, and the guard is for that handle or a later one.
C3_Witness ==
  /\ Len(guards["t1"]) = 1
  /\ tls[1]["t1"].ref_count = 1
  /\ guards["t1"][1].need >= 2
  /\ tlsIdx[1]["t1"] >= guards["t1"][1].need
  /\ guards["t1"][1].ptr = stored[1][tlsIdx[1]["t1"]]
  /\ guards["t1"][1].ptr # Null

\* C4 -- publish serialization: when every update() called on a cell has
\* returned, version_ is the number of the calls, every handle passed was
\* stored, and value_ is the handle of the last store.
C4_PublishSerialization ==
  \A c \in cells : Quiescent(c) =>
    /\ version_[c] = Started(c)
    /\ Len(stored[c]) = Started(c) + 1
    /\ returned[c] = Len(stored[c])
    /\ value_[c] = stored[c][Len(stored[c])]
    /\ (Started(c) > 0 => \E i \in 2 .. Len(stored[c]) : value_[c] = stored[c][i])

\* Both threads have published, the second store before the first update
\* returned or after, and all the calls have returned.
C4_Witness ==
  /\ Quiescent(1)
  /\ storeIdx["t1"] # 0
  /\ storeIdx["t2"] # 0
  /\ version_[1] = 2

\* C5 -- monotonic versioning: the version an outermost load leaves in the
\* slot is no lower than the one the thread's outermost load before it left,
\* and the handle it leaves was stored no earlier than the one the slot took
\* before, a scheduled release between the two loads or not.
C5_MonotonicVersioning ==
  [][\A t \in Threads : OutermostLoadEnds(t) =>
       LET c == Returned(t).cell
       IN /\ tls'[c][t].version >= prevVer[c][t]
          /\ tlsIdx'[c][t] >= tlsIdx[c][t]
          /\ prevVer'[c][t] = tls'[c][t].version]_vars

\* t1 holds one guard from an outermost load that left a higher version in
\* the slot than the load before it, and the handle of a later store.
C5_Witness ==
  /\ Len(guards["t1"]) = 1
  /\ tls[1]["t1"].ref_count = 1
  /\ guards["t1"][1].prev >= 1
  /\ tls[1]["t1"].version > guards["t1"][1].prev
  /\ tlsIdx[1]["t1"] >= 3

\* C6 -- null round-trip: an outermost load that begins when every store into
\* the cell has returned, and ends before another, gives a guard that tests
\* true exactly when the handle the cell was constructed with or last updated
\* to is not empty, and points to that handle's T.
C6_NullRoundTrip ==
  [][\A t \in Threads : OutermostLoadEnds(t) =>
       LET g == Returned(t)
           c == g.cell
           last == stored[c][Len(stored[c])]
       IN g.need = Len(stored[c]) =>
            /\ GuardBool(tls'[c][t]) = (last # Null)
            /\ tls'[c][t].ptr = last
            /\ tls'[c][t].value = last]_vars

\* The cell was constructed empty, updated to a T and then to empty; t1, whose
\* outermost load before this one left the version of the T, holds a guard
\* from a load that began after the last update returned, and it tests false.
C6_Witness ==
  /\ Len(stored[1]) = 3
  /\ stored[1][1] = Null
  /\ stored[1][2] # Null
  /\ stored[1][3] = Null
  /\ Len(guards["t1"]) = 1
  /\ tls[1]["t1"].ref_count = 1
  /\ guards["t1"][1].need = 3
  /\ guards["t1"][1].prev = 1
  /\ tls[1]["t1"].version = 2
  /\ ~GuardBool(tls[1]["t1"])

\* The next step of an update() thread t is in.
UpdateStep(t) == UpdateStore(t) \/ UpdateVersion(t) \/ UpdatePush(t) \/ UpdateReturn(t)

\* C10 -- writes never block on readers: whatever guards are live, the
\* caller's own among them, an update() that may be called can take its first
\* step and one that is under way its next; and a guard from a load that began
\* before a store into its cell reads the pointer it gave.
C10_WritesNeverBlock ==
  \A t \in Threads :
    /\ pc[t] \in UpdatePcs => ENABLED UpdateStep(t)
    /\ \A c \in cells : pc[t] = "idle" /\ Started(c) < MaxPub => ENABLED Update(c, t, Null)
    /\ \A c \in cells : \A i \in Held(t, c) :
         guards[t][i].need < Len(stored[c]) => tls[c][t].ptr = guards[t][i].ptr

\* t1 holds a guard from a load that began before its own update() stored;
\* the update has returned, the cell has another handle and the guard's slot
\* the one it had.
C10_Witness ==
  /\ pc["t1"] = "idle"
  /\ Len(guards["t1"]) >= 1
  /\ storeIdx["t1"] > guards["t1"][1].need
  /\ returned[1] >= storeIdx["t1"]
  /\ guards["t1"][1].ptr # Null
  /\ tls[1]["t1"].ptr = guards["t1"][1].ptr
  /\ value_[1] # guards["t1"][1].ptr

\* A guard of thread t on cell c goes out of scope in this step / the last one.
GuardDies(t, c) == Cardinality(Held(t, c)') = Cardinality(Held(t, c)) - 1
LastGuardDies(t, c) == Cardinality(Held(t, c)) = 1 /\ Held(t, c)' = {}
LastGuard(t, c) == guards[t][CHOOSE i \in Held(t, c) : TRUE]

\* The slot as a release leaves it / a step leaves the slot's cache as it was.
Cleared(s) == s.value = Null /\ s.ptr = Null /\ ~s.to_release
Kept(c, t) ==
  /\ tls'[c][t].value = tls[c][t].value
  /\ tls'[c][t].ptr = tls[c][t].ptr
  /\ tls'[c][t].version = tls[c][t].version

\* No guard is live on the slot, which a release has cleared since the
\* thread's last outermost load.
ReleasedSlot(c, t) ==
  /\ tls[c][t].init
  /\ tls[c][t].ref_count = 0
  /\ Cleared(tls[c][t])
  /\ tls[c][t].version = Dec64(prevVer[c][t])

\* A load of thread t on cell c constructs its guard in this step.
LoadBegins(t, c) ==
  /\ pc[t] = "idle"
  /\ tls'[c][t].ref_count = tls[c][t].ref_count + 1

\* The load that follows a release reads version_ and value_ again and the
\* slot takes both.
ReconcilesAfterRelease(t, c) ==
  /\ ReleasedSlot(c, t) /\ LoadBegins(t, c) =>
       /\ pc'[t] = "guard_value"
       /\ cur'[t] = c
       /\ new_version'[t] = version_[c]
  /\ ReleasedSlot(c, t) /\ pc[t] = "guard_value" /\ cur[t] = c /\ LoadEnds(t) =>
       /\ tls'[c][t].version = new_version[t]
       /\ tls'[c][t].value = value_[c]
       /\ tls'[c][t].ptr = value_[c]
       /\ Returned(t).ptr = value_[c]

C8_DeferredRelease ==
  [][\A t \in Threads : \A c \in cells :
       /\ GuardDies(t, c) /\ tls[c][t].ref_count > 1 =>
            Kept(c, t) /\ tls'[c][t].to_release = tls[c][t].to_release
       /\ GuardDies(t, c) /\ tls'[c][t].value # tls[c][t].value =>
            tls'[c][t].ref_count = 0 /\ Held(t, c)' = {}
       /\ LastGuardDies(t, c)
            /\ lastCtl[c][t].call = "nested load_with_tls_release" =>
            Cleared(tls'[c][t]) /\ ReleasedSlot(c, t)']_vars

\* t1's slot held a T; its last guard came from load(), the last call to write
\* to_release was a nested load_with_tls_release(), and the slot is cleared.
C8_Witness ==
  /\ lastCtl[1]["t1"].closed = << "nested load_with_tls_release", FALSE >>
  /\ guards["t1"] = << >>
  /\ ReleasedSlot(1, "t1")
  /\ value_[1] # Null
  /\ tls[1]["t1"].version = Dec64(version_[1])

\* C9 as written -- with tls.retain() the last of the schedule_release() and
\* retain() calls before the last guard is destroyed the slot is kept, with
\* schedule_release() the last it is cleared.
C9_AsWritten ==
  [][\A t \in Threads : \A c \in cells : LastGuardDies(t, c) =>
       /\ lastCtl[c][t].tls = "retain" => Kept(c, t)
       /\ lastCtl[c][t].tls = "schedule_release" => Cleared(tls'[c][t])]_vars

\* C9 -- retain() cancels a scheduled release: with tls.retain() the last of
\* the schedule_release(), retain() and load_with_tls_release() calls on the
\* slot before its last live guard is destroyed, the slot keeps its handle,
\* pointer and version after that destruction; with schedule_release() the
\* last of them, the slot is cleared.
C9_RetainCancels ==
  [][\A t \in Threads : \A c \in cells : LastGuardDies(t, c) =>
       /\ lastCtl[c][t].call = "retain" =>
            Kept(c, t) /\ ~tls'[c][t].to_release
       /\ lastCtl[c][t].call = "schedule_release" =>
            Cleared(tls'[c][t]) /\ ReleasedSlot(c, t)']_vars

\* The last guard on t1's slot came from load_with_tls_release(); retain() was
\* the last call before it was destroyed, and the slot has its T.
C9_Witness ==
  /\ lastCtl[1]["t1"].closed = << "retain", TRUE >>
  /\ guards["t1"] = << >>
  /\ tls[1]["t1"].value # Null
  /\ tls[1]["t1"].ptr = tls[1]["t1"].value
  /\ tls[1]["t1"].version = prevVer[1]["t1"]
  /\ ~tls[1]["t1"].to_release

\* The positions of a thread inside local::load, in the order it passes them.
LoadPcs == {"init_value", "guard_version", "guard_value"}
LoadRank(p) ==
  CASE p = "init_value" -> 1
    [] p = "guard_version" -> 2
    [] p = "guard_value" -> 3
    [] OTHER -> 0

\* The next step of a load thread t is in.
LoadStep(t) == LoadInitValue(t) \/ GuardVersion(t) \/ GuardValue(t)

\* C11 -- reads never block on writers: a load that may be called can take
\* its first step and a load under way its next one, whatever the publishing
\* threads are at, between the store of value_ and the bump of version_
\* included; and each step of a load takes it to a later position or returns
\* its guard, so that a load ends within three steps of its own.
C11_ReadsNeverBlock ==
  [][\A t \in Threads :
       /\ pc[t] \in LoadPcs => ENABLED LoadStep(t)
       /\ \A c \in cells : pc[t] = "idle" /\ Len(guards[t]) < MaxDepth =>
            ENABLED Load(c, t, FALSE, MaxDepth) /\ ENABLED Load(c, t, TRUE, MaxDepth)
       /\ pc[t] \in LoadPcs /\ pc'[t] # pc[t] =>
            \/ pc'[t] = "idle" /\ LoadEnds(t)
            \/ LoadRank(pc'[t]) > LoadRank(pc[t])
       /\ pc[t] = "idle" /\ pc'[t] # "idle" =>
            pc'[t] \in LoadPcs \/ pc'[t] = "update_store"]_vars

\* t2 has stored and not yet bumped version_; t1's load read value_ after
\* that store, took its handle and has returned its guard.
C11_Witness ==
  /\ pc["t2"] = "update_version"
  /\ pc["t1"] = "idle"
  /\ Len(guards["t1"]) = 1
  /\ tlsIdx[1]["t1"] = storeIdx["t2"]
  /\ storeIdx["t2"] = Len(stored[1])
  /\ returned[1] < storeIdx["t2"]

\* The holders of a handle to T v outside the reclaimer: the source, the
\* threads' slots, and the variables of update() and its caller.
HeldOutside(v) ==
  \/ \E c \in Cells : value_[c] = v
  \/ \E c \in Cells, t \in Threads : tls[c][t].value = v
  \/ \E t \in Threads : value[t] = v \/ old[t] = v

\* C12 -- the reclaimer drops only what it owns alone: a handle the worker
\* has taken out of ptrs_ to drop is held by no source, slot or variable, and
\* neither is a T whose destructor the worker has run.
C12_ReclaimerSoleOwner ==
  \A v \in Vals :
    /\ v \in unique_ptrs => ~HeldOutside(v) /\ v \notin ptrs_
    /\ dtorBy[v] = Reclaimer => ~HeldOutside(v) /\ v \notin ptrs_

\* The worker's scan has taken one retired handle to drop and left another,
\* which t1's slot holds, in ptrs_.
C12_Witness ==
  /\ wpc = "clear"
  /\ unique_ptrs # {}
  /\ tls[1]["t1"].value \in ptrs_
  /\ Len(guards["t1"]) >= 1

\* The Ts cell c has held and holds no more.
Superseded(c) ==
  {stored[c][i] : i \in 1 .. Len(stored[c])} \ {Null, value_[c]}

\* Every update() the cell gets has returned, and no slot holds a handle to a
\* T the cell has replaced.
PublishesOver(c) ==
  /\ Started(c) = MaxPub
  /\ Quiescent(c)
  /\ \A t \in Threads : tls[c][t].value \notin Superseded(c)

\* The reclaimer holds nothing and has destroyed every T the cell replaced.
Converged(c) ==
  /\ ptrs_ = {}
  /\ unique_ptrs = {}
  /\ \A v \in Superseded(c) : dtorBy[v] = Reclaimer

\* C13 -- reclaimer convergence: with a positive reclaim interval, once the
\* publishes, made one after another, are over and no slot holds a replaced T, the reclaimer's set gets
\* empty and every replaced T is destroyed by the worker; the first scan
\* from then on takes all of the set.
C13_ReclaimerConvergence ==
  /\ \A c \in Cells : (c \in cells /\ PublishesOver(c)) ~> Converged(c)
  /\ [][\A c \in cells :
          PublishesOver(c) /\ wpc = "wait" /\ ptrs_' # ptrs_ /\ ptrs_' \subseteq ptrs_ =>
            ptrs_' = {}]_vars

\* Two publishes are over; t1's slot holds the cell's T at the cell's
\* version, and the worker has destroyed the two replaced Ts and holds nothing.
C13_Witness ==
  /\ PublishesOver(1)
  /\ Converged(1)
  /\ Cardinality(Superseded(1)) >= 2
  /\ tls[1]["t1"].value = value_[1]
  /\ tls[1]["t1"].version = version_[1]
  /\ prevVer[1]["t1"] = version_[1]


\* C14 -- destruction thread with a reclaimer attached: every T of a storage
\* constructed with a reclaimer that has been destroyed, the initial, the
\* replaced and the last one alike, was destroyed by the reclaimer's worker.
C14_DestructionThread ==
  \A v \in Vals : dtorBy[v] \in {NoOne, Reclaimer}

\* The positions, in the guards of thread t, of the guards of the guard_pack
\* it holds (from the pack's construction until its destructor ends).
PackGuards(t) ==
  IF pack[t].phase \in {"temps", "held"}
  THEN (pack[t].base + 1) .. (pack[t].base + Len(pack[t].args))
  ELSE IF pack[t].phase = "destroy" THEN (pack[t].base + 1) .. Len(guards[t])
  ELSE {}

\* Each guard of the guard_packs held reads, through its slot, the pointer its
\* load gave, to a T that is alive and that the cell held at that load.
StablePacks ==
  \A t \in Threads : \A i \in PackGuards(t) :
    LET g == guards[t][i]
        c == g.cell
    IN /\ tls[c][t].ptr = g.ptr
       /\ g.ptr = stored[c][tlsIdx[c][t]]
       /\ g.ptr # Null => Alive(g.ptr)

\* C15 -- bundle snapshot stability: as long as a thread holds a guard_pack,
\* each guard of the pack reads the pointer its load gave when the pack was
\* built, to a T that is alive, whatever has been published since; and a
\* load, of a pack or alone, made when its slot has no guard (the pack
\* destroyed) gives a value no older than the last publish that had returned
\* when it began.
C15_BundleSnapshotStability ==
  [][/\ StablePacks
     /\ StablePacks'
     /\ \A t \in Threads : OutermostLoadEnds(t) =>
          LET g == Returned(t) IN
            /\ tlsIdx'[g.cell][t] >= g.need
            /\ g.ptr = stored[g.cell][tlsIdx'[g.cell][t]]]_vars

\* t1 holds a pack over cells 1 and 2, built after a publish to cell 1 had
\* returned, whose first guard gives the published T; a publish to cell 2
\* has returned since and the second guard gives the T cell 2 held before.
C15_Witness ==
  /\ pack["t1"].phase = "held"
  /\ pack["t1"].args = << 1, 2 >>
  /\ LET b == pack["t1"].base IN
       /\ guards["t1"][b + 1].need = 2
       /\ guards["t1"][b + 1].ptr = stored[1][2]
       /\ guards["t1"][b + 2].ptr = stored[2][1]
       /\ returned[2] = 2
       /\ value_[2] # guards["t1"][b + 2].ptr

\* ~guard_pack of thread t destroys a guard in this step.
PackDestroys(t) ==
  /\ pack[t].phase \in {"held", "destroy"}
  /\ Len(guards'[t]) < Len(guards[t])

\* C16 -- bundle LIFO destruction: each step of ~guard_pack destroys, of the
\* pack's guards that are left, the one constructed last (the highest index),
\* from index N-1 down to index 0, and takes exactly 1 from the ref_count of
\* that guard's slot and nothing from any other slot.
C16_BundleLifoDestruction ==
  [][\A t \in Threads : PackDestroys(t) =>
       LET n == Len(guards[t])
           g == guards[t][n]
       IN /\ n = pack[t].base + Built(t)
          /\ pack[t].phase = "held" => Built(t) = Len(pack[t].args)
          /\ guards'[t] = SubSeq(guards[t], 1, n - 1)
          /\ ~g.moved_
          /\ \A c \in Cells :
               tls'[c][t].ref_count =
                 tls[c][t].ref_count - (IF c = g.cell THEN 1 ELSE 0)
          /\ pack'[t].phase = (IF n = pack[t].base + 1 THEN "none" ELSE "destroy")]_vars

\* ~guard_pack of a pack over cells 1 and 2 has destroyed the guard of index
\* 1 and not yet the guard of index 0: slot 2 has no guard, slot 1 has the
\* pack's and the one t1 held before.
C16_Witness ==
  /\ pack["t1"].phase = "destroy"
  /\ pack["t1"].args = << 1, 2 >>
  /\ pack["t1"].base = 1
  /\ Len(guards["t1"]) = 2
  /\ guards["t1"][2].cell = 1
  /\ tls[2]["t1"].ref_count = 0
  /\ tls[1]["t1"].ref_count = 2

\* make_guard_pack of thread t ends by an exception in this step.
PackThrows(t) ==
  /\ pack[t].phase \in {"load", "unwind"}
  /\ pack'[t].phase = "none"

\* C17 -- bundle construction failure: when make_guard_pack fails while it
\* produces its k-th guard, the k-1 guards it has produced are destroyed, the
\* last produced first, before the caller has the exception, and then the
\* thread holds the guards it held at the call and every slot of it has the
\* ref_count it had then.
C17_BundleConstructionFailure ==
  [][\A t \in Threads :
       /\ pack[t].phase = "unwind" /\ guards'[t] # guards[t] =>
            /\ Built(t) \in 1 .. (Len(pack[t].args) - 1)
            /\ guards'[t] = SubSeq(guards[t], 1, Len(guards[t]) - 1)
            /\ pack'[t].phase = "none" <=> Len(guards'[t]) = pack[t].base
       /\ pack[t].phase = "load" /\ pack'[t].phase = "unwind" =>
            Built(t) >= 1 /\ UNCHANGED << guards, tls >>
       /\ PackThrows(t) =>
            /\ Len(guards'[t]) = pack[t].base
            /\ \A c \in Cells : tls'[c][t].ref_count = pack[t].before[c]]_vars

\* t1, holding a guard on cell 1, called make_guard_pack(s1, s1, s2); the
\* load of the third guard, the first of t1 on cell 2, has thrown, and the
\* two guards produced, both on cell 1, are about to be destroyed.
C17_Witness ==
  /\ pack["t1"].phase = "unwind"
  /\ pack["t1"].args = << 1, 1, 2 >>
  /\ pack["t1"].base = 1
  /\ pack["t1"].before[1] = 1
  /\ Built("t1") = 2
  /\ tls[1]["t1"].ref_count = 3
  /\ ~tls[2]["t1"].init

\* C18 -- bundle load order: make_guard_pack(C1, ..., Cn) loads the cells from
\* left to right: the k-th guard the call produces, whose load reconciled its
\* slot, is the guard of its k-th argument.
C18_BundleLoadOrder ==
  \A t \in Threads : pack[t].phase \in {"load", "unwind"} =>
    \A k \in 1 .. Built(t) :
      /\ pack[t].order[k] = k
      /\ guards[t][pack[t].base + k].cell = pack[t].args[k]

\* The guards anchored on the slot of thread t for cell c: the live guards
\* of t on c that have not been moved from, and the guard a load of t on c
\* is constructing, which has counted itself.
Anchored(t, c) ==
    Cardinality({i \in Held(t, c) : ~guards[t][i].moved_})
  + (IF pc[t] \in {"guard_version", "guard_value"} /\ cur[t] = c THEN 1 ELSE 0)

\* C19 -- ref_count accuracy: a slot's ref_count is the number of live,
\* not moved-from guards anchored on it, the one under construction counted:
\* a load adds 1, a guard's destruction takes 1, and the move of a guard into
\* a guard_pack and the destruction of the moved-from guard change nothing.
C19_RefCountAccuracy ==
  \A t \in Threads : \A c \in Cells : tls[c][t].ref_count = Anchored(t, c)

\* The guards of make_guard_pack(s1, s1, s2) have just been moved into the
\* pack, in the scope of a guard on cell 1: t1 holds one guard, the pack's
\* three and the three moved-from temporaries, and slot 1 counts three.
C19_Witness ==
  /\ pack["t1"].phase = "temps"
  /\ pack["t1"].args = << 1, 1, 2 >>
  /\ pack["t1"].base = 1
  /\ Len(guards["t1"]) = 7
  /\ guards["t1"][7].moved_
  /\ ~guards["t1"][4].moved_
  /\ tls[1]["t1"].ref_count = 3
  /\ tls[2]["t1"].ref_count = 1

\* Thread t has a slot for cell c in its map: tls_instance::ref() has made it
\* (local::load fills it in next) and t has not exited.
SlotExists(c, t) ==
  \/ tls[c][t].init
  \/ pc[t] = "init_value" /\ cur[t] = c

\* C20 as written: a slot is made on the thread's first load of the cell
\* and is destroyed, its handle dropped, when the thread exits or when the
\* cell is destroyed, whichever comes first.
C20_AsWritten ==
  \A c \in Cells, t \in Threads :
    /\ SlotExists(c, t) => tlsIdx[c][t] > 0 \/ pc[t] = "init_value"
    /\ pc[t] = "exited" \/ c \notin cells =>
         ~SlotExists(c, t) /\ tls[c][t].value = Null

\* C20 -- cache slot lifetime: a slot is made by the thread's first load of
\* the cell and by nothing else, and is destroyed, its handle dropped, when
\* the thread exits and by nothing else: the destruction of the cell leaves
\* the threads' slots, and the handles they hold, as they are.
C20_CacheSlotLifetime ==
  [][\A c \in Cells, t \in Threads :
       /\ ~SlotExists(c, t) /\ SlotExists(c, t)' =>
            pc[t] = "idle" /\ pc'[t] = "init_value" /\ cur'[t] = c
       /\ SlotExists(c, t) /\ ~SlotExists(c, t)' => pc[t] = "idle" /\ pc'[t] = "exited"
       /\ pc'[t] = "exited" => ~SlotExists(c, t)' /\ tls'[c][t].value = Null
       /\ cells' # cells => tls' = tls]_vars

\* Cell 1 has been destroyed; t1, which loaded from it, has its slot and the
\* slot's handle to a T that is alive.
C20_Witness ==
  /\ 1 \notin cells
  /\ pc["t1"] = "idle"
  /\ SlotExists(1, "t1")
  /\ tls[1]["t1"].value # Null
  /\ Alive(tls[1]["t1"].value)

\* The Ts that have been made: the cells' initial values and the published ones.
Made(v) == \E c \in Cells : \E i \in 1 .. Len(stored[c]) : stored[c][i] = v

\* C21 (thread-exit cleanup): once a thread has exited, none of its cache
\* slots, of a live cell or of a destroyed one, holds a handle, a pointer or
\* a pending guard; and a T that was made and that no place holds any more
\* has been destroyed.
C21_ThreadExitCleanup ==
  /\ \A t \in Threads :
       pc[t] = "exited" =>
         \A c \in Cells : tls[c][t].value = Null /\ tls[c][t].ptr = Null
                          /\ ~tls[c][t].init
  /\ (\E t \in Threads : pc[t] = "exited") =>
       \A v \in Vals : Made(v) /\ UseCount(v) = 0 => ~Alive(v)

\* t1 loaded from both cells, both cells were destroyed while its slots kept
\* their values alive, and its exit destroyed them.
C21_Witness ==
  /\ pc["t1"] = "exited"
  /\ cells = {}
  /\ \A c \in Cells : Len(stored[c]) = 1 /\ stored[c][1] # Null
                      /\ tlsIdx[c]["t1"] = 1
                      /\ dtorBy[stored[c][1]] = User

\* C22 (publish is all-or-nothing on failure): when an update() of the only
\* publisher fails, by an exception out of the reclaimer's push, the source
\* holds the handle and the version it held when the call began.
C22_PublishAllOrNothing ==
  [][\A t \in Threads :
       UpdatePushThrows(t) =>
         /\ value_'[cur[t]] = old[t]
         /\ version_'[cur[t]] = version_[cur[t]] - 1]_vars

\* A step of an operation on cell c: of a load, of an update, the destruction
\* of a guard of c, or a schedule_release / retain through a guard of c.
StepOn(c) ==
  \E t \in Threads :
    \/ \E rel \in BOOLEAN : Load(c, t, rel, MaxDepth)
    \/ cur[t] = c /\ (LoadStep(t) \/ UpdateStep(t))
    \/ \E v \in Vals : Update(c, t, v)
    \/ \E i \in Held(t, c) : Dtor(t, i) \/ TlsScheduleRelease(t, i) \/ TlsRetain(t, i)

\* The handles value_ of cell c has held.
Published(c) == {stored[c][i] : i \in 1 .. Len(stored[c])}

\* C23 (cell independence): a step of a load, an update, a guard's destruction
\* or a scheduled release on one cell leaves every other cell's value_,
\* version_ and slots as they are, and a load on a cell returns a value that
\* was published to that cell.
C23_CellIndependence ==
  [][/\ \A c \in Cells :
          StepOn(c) =>
            \A d \in Cells \ {c} :
              value_'[d] = value_[d] /\ version_'[d] = version_[d] /\ tls'[d] = tls[d]
     /\ \A t \in Threads :
          LoadEnds(t) => Returned(t).ptr \in Published(Returned(t).cell)]_vars

\* Both cells are live and published to, t1's slots cache the two cells'
\* current values, and t1 holds a guard on the second cell.
C23_Witness ==
  /\ cells = Cells
  /\ \A c \in Cells : /\ version_[c] = 1
                      /\ tls[c]["t1"].version = 1
                      /\ tls[c]["t1"].value = value_[c]
                      /\ value_[c] # Null
  /\ Held("t1", 2) # {}

Reconciles(t, c) ==
  /\ OutermostLoadEnds(t)
  /\ Returned(t).cell = c
  /\ tls[c][t].init
  /\ tls'[c][t].version # tls[c][t].version

\* C25 (reader-path reclamation without a reclaimer): the step in which an
\* outermost load reconciles a slot drops the slot's handle to the value it
\* cached, which is destroyed in that step if the slot was its last holder;
\* and with one thread that publishes and loads, after each outermost load
\* the current value is the only T alive.
C25_ReaderPathReclamation ==
  [][\A t \in Threads, c \in Cells :
       /\ Reconciles(t, c) =>
            /\ tls'[c][t].value = value_[c]
            /\ \A was \in Vals :
                 was = tls[c][t].value /\ was # value_[c] =>
                   /\ UseCount(was)' = UseCount(was) - 1
                   /\ UseCount(was)' = 0 => dtorBy'[was] = User
       /\ OutermostLoadEnds(t) /\ Returned(t).cell = c =>
            \A v \in Vals : Made(v) /\ v # Null /\ Alive(v)' => v = value_[c]]_vars

\* t1 published twice and loaded after each publish: the load after the
\* second publish found the first published T in the slot and destroyed it,
\* the initial one is gone too, and t1 holds the guard of the current value.
C25_Witness ==
  /\ Len(stored[1]) = 3
  /\ \A i \in 1 .. 3 : stored[1][i] # Null
  /\ dtorBy[stored[1][1]] = User /\ dtorBy[stored[1][2]] = User
  /\ tlsIdx[1]["t1"] = 3
  /\ tls[1]["t1"].value = value_[1] /\ value_[1] = stored[1][3]
  /\ Alive(value_[1])
  /\ Len(guards["t1"]) = 1

\* C26 (reclaimer shutdown terminates): once ~reclaimer_thread has set stop_,
\* the worker leaves its loop and the destructor's join returns, in
\* notification-only mode as with a positive interval, whatever handles the
\* queue holds and wherever the worker stood when stop_ was set.
C26_ShutdownTerminates == (dpc = "notify") ~> (dpc = "done")

\* The reclaimer of notification-only mode was destroyed while its queue held
\* a handle that a reader's slot still shared: the worker has left its loop
\* and the destructor has returned.
C26_Witness ==
  /\ reclaim_interval_ = 0
  /\ dpc = "done"
  /\ wpc = "exited"
  /\ \E v \in Vals : Alive(v) /\ tls[1]["t1"].value = v /\ v \in Published(1)
                     /\ cells = {} /\ Len(stored[1]) > 1 /\ v = stored[1][1]

\* The reclaimer is the only holder of T v, which waits in its queue.
QueuedAlone(v) == v \in ptrs_ /\ UseCount(v) = 1

\* C27 (notification-only mode): with reclaim_interval == 0 a handle leaves
\* the queue only by a scan that a notification started or by the
\* reclaimer's destruction, and notified_ is set only by a push that queued
\* a new handle or by the destructor, so a handle that became the
\* reclaimer's alone after the last scan stays queued until then; with a
\* positive interval the handles that are the reclaimer's alone (and stay so
\* until they are dropped) leave the queue with no further push.
C27_NotificationOnlyMode ==
  /\ [][reclaim_interval_ = 0 =>
          /\ ~(ptrs_ \subseteq ptrs_') => (WorkerScan /\ notified_) \/ ReclaimerJoin
          /\ ~notified_ /\ notified_' =>
               \/ ReclaimerNotify
               \/ \E t \in Threads : UpdatePush(t) /\ old[t] # Null /\ old[t] \notin ptrs_]_vars
  /\ (reclaim_interval_ # 0 /\ \E v \in Vals : QueuedAlone(v))
        ~> (\A v \in Vals : ~QueuedAlone(v))

\* Notification-only mode: the worker waits with no notification pending
\* while the queue holds a T that only the reclaimer owns, the reader's slot
\* having moved on after the scan.
C27_Witness ==
  /\ reclaim_interval_ = 0
  /\ wpc = "wait" /\ ~notified_ /\ dpc = "none"
  /\ \E v \in Vals : QueuedAlone(v)
  /\ \A t \in Threads : pc[t] = "idle"

\* A step of a load()/load_with_tls_release() of thread t on cell c.
LoadOn(t, c) ==
  \/ \E rel \in BOOLEAN : Load(c, t, rel, MaxDepth)
  \/ cur[t] = c /\ LoadStep(t)

\* What a slot caches: its version, pointer and handle.
Cached(s) == << s.version, s.ptr, s.value >>

\* C28 (frame while guarded): while a guard is live on a slot, no step of a
\* load()/load_with_tls_release() on it changes the slot's version, pointer
\* or handle; a load changes them only as the load that finds the slot with no
\* guard and moves its ref_count from 0 to 1.
C28_FrameWhileGuarded ==
  [][\A t \in Threads, c \in Cells :
       LoadOn(t, c) =>
         /\ Held(t, c) # {} => Cached(tls'[c][t]) = Cached(tls[c][t])
         /\ Cached(tls'[c][t]) # Cached(tls[c][t]) =>
              /\ Held(t, c) = {}
              /\ tls[c][t].ref_count = IF tls[c][t].init THEN 1 ELSE 0
              /\ tls'[c][t].ref_count = 1]_vars

\* t1 holds two guards on the slot, the second from a nested load made after
\* a publish had returned: the slot still caches the first guard's value and
\* version, behind the source.
C28_Witness ==
  /\ Len(guards["t1"]) = 2
  /\ guards["t1"][1].ptr = guards["t1"][2].ptr
  /\ guards["t1"][2].need > guards["t1"][1].need
  /\ tls[1]["t1"].ref_count = 2
  /\ tls[1]["t1"].version # version_[1]
  /\ tls[1]["t1"].value # value_[1]

\* A step of a plain load() / of a load_with_tls_release() of thread t on cell c.
PlainLoadOn(t, c) ==
  \/ Load(c, t, FALSE, MaxDepth)
  \/ cur[t] = c /\ ~with_release[t] /\ LoadStep(t)
ReleaseLoadOn(t, c) ==
  \/ Load(c, t, TRUE, MaxDepth)
  \/ cur[t] = c /\ with_release[t] /\ LoadStep(t)

\* C29 (a plain load() never changes to_release): no step of a load() changes
\* the slot's to_release; it is set only by a load_with_tls_release() and by
\* tls.schedule_release(), and cleared only by tls.retain() and by the
\* destruction of the slot's last guard.
C29_PlainLoadKeepsToRelease ==
  [][\A t \in Threads, c \in Cells :
       /\ PlainLoadOn(t, c) => tls'[c][t].to_release = tls[c][t].to_release
       /\ ~tls[c][t].to_release /\ tls'[c][t].to_release =>
            \/ ReleaseLoadOn(t, c) /\ LoadEnds(t)
            \/ \E i \in Held(t, c) : TlsScheduleRelease(t, i)
       /\ tls[c][t].to_release /\ ~tls'[c][t].to_release =>
            \/ \E i \in Held(t, c) : TlsRetain(t, i)
            \/ LastGuardDies(t, c)]_vars

\* t1 holds a guard from load_with_tls_release() and, nested in it, a guard
\* from a plain load(): the release is still scheduled, by that first call.
C29_Witness ==
  /\ Len(guards["t1"]) = 2
  /\ guards["t1"][1].release /\ ~guards["t1"][2].release
  /\ tls[1]["t1"].to_release
  /\ lastCtl[1]["t1"].call = "load_with_tls_release"

\* A step of thread t on cell c that is not a publish: a step of a load, the
\* destruction of a guard (with the release it may carry out), or a
\* schedule_release / retain through a guard.
ReaderStepOn(t, c) ==
  \/ LoadOn(t, c)
  \/ \E i \in Held(t, c) : Dtor(t, i) \/ TlsScheduleRelease(t, i) \/ TlsRetain(t, i)

\* C30 (single-writer state): a step of a load, of a guard's destruction or
\* of a scheduled release by a thread leaves every source's value_ and
\* version_ as they are, and of the slots changes at most the calling
\* thread's own slot of that cell.
C30_SingleWriterState ==
  [][\A t \in Threads, c \in Cells :
       ReaderStepOn(t, c) =>
         /\ value_' = value_
         /\ version_' = version_
         /\ \A d \in Cells, u \in Threads :
              tls'[d][u] # tls[d][u] => d = c /\ u = t]_vars

\* Both threads have loaded from the cell: t1 holds a guard on the value it
\* cached before the publish, with a release scheduled, and t2 one on the
\* published value.
C30_Witness ==
  /\ guards["t1"] # << >> /\ guards["t2"] # << >>
  /\ tls[1]["t1"].to_release /\ ~tls[1]["t2"].to_release
  /\ tls[1]["t1"].version = 0 /\ tls[1]["t2"].version = 1
  /\ tls[1]["t2"].value = value_[1]
  /\ tls[1]["t1"].value # value_[1]

\* T v was handed to the reclaimer: it is in the queue, in the worker's
\* buffer, or the worker destroyed it.
HandedOver(v) == v \in ptrs_ \/ v \in unique_ptrs \/ dtorBy[v] = Reclaimer

\* C31 (retirement hand-off): once the publishes on a cell with a reclaimer
\* have returned, every non-empty handle that a publish replaced has been
\* handed to the reclaimer, however the publishes interleaved.
C31_RetirementHandOff ==
  \A c \in cells :
    Quiescent(c) =>
      \A i \in 1 .. (Len(stored[c]) - 1) :
        stored[c][i] # Null => HandedOver(stored[c][i])

\* C32 (reclaimer push semantics): a push of an empty handle leaves the queue
\* and notified_ as they are; a push of a handle the queue already holds
\* leaves the queue as it is and raises no notification; a push of a new
\* handle adds it to the queue, which holds it once, and sets notified_.
C32_PushSemantics ==
  [][\A t \in Threads :
       UpdatePush(t) =>
         /\ old[t] = Null => ptrs_' = ptrs_ /\ notified_' = notified_
         /\ old[t] # Null /\ old[t] \in ptrs_ =>
              ptrs_' = ptrs_ /\ notified_' = notified_
         /\ old[t] # Null /\ old[t] \notin ptrs_ =>
              /\ ptrs_' = ptrs_ \cup {old[t]}
              /\ Cardinality(ptrs_') = Cardinality(ptrs_) + 1
              /\ notified_']_vars

\* Two publishers read the same old handle and both pushed it: the worker
\* scanned between the two pushes, and the second push, of a handle already
\* queued, raised no notification.
C32_Witness ==
  /\ \A t \in Threads : pc[t] = "update_return" /\ old[t] = 1
  /\ ptrs_ = {1}
  /\ ~notified_
  /\ wpc = "wait"

\* C33 (no lost wakeup): notified_, which a push of a new handle sets, is
\* cleared only by the worker as it begins a scan, and while it is set with
\* handles queued the worker does come to that scan, in notification-only
\* mode as with a positive interval, wherever in its loop the worker stood at
\* the push; the handles pushed are then in the scanned queue.
C33_NoLostWakeup ==
  /\ [][notified_ /\ ~notified_' => WorkerScan]_vars
  /\ [][\A v \in Vals : v \in ptrs_ /\ v \notin ptrs_' => WorkerScan]_vars
  /\ (notified_ /\ ptrs_ # {}) ~> ~notified_

\* Notification-only mode: a push of a new handle came while the worker was
\* between its scan and its next wait, dropping what the scan had found.
C33_Witness ==
  /\ reclaim_interval_ = 0
  /\ wpc = "clear"
  /\ notified_
  /\ ptrs_ # {}
  /\ unique_ptrs # {}

\* C34 (the reclaimer runs ~T outside its lock): the scan, the worker's step
\* under lock_, destroys no T and moves every handle it takes out of the queue
\* to the worker's buffer; a T the worker destroys is destroyed by the
\* clearing of that buffer, after the lock was released; and while the buffer
\* waits to be cleared a push that is due can be made.
C34_DestructorOutsideLock ==
  /\ [][/\ WorkerScan => /\ dtorBy' = dtorBy
                         /\ ptrs_ \ ptrs_' \subseteq unique_ptrs'
                         /\ \A v \in ptrs_ \ ptrs_' : UseCount(v)' = 1
        /\ \A v \in Vals :
             dtorBy[v] = NoOne /\ dtorBy'[v] = Reclaimer =>
               WorkerClear /\ v \in unique_ptrs]_vars
  /\ [](\A t \in Threads :
          wpc = "clear" /\ pc[t] = "update_push" => ENABLED UpdatePush(t))

\* The worker left its scan with a T to destroy and has not yet cleared its
\* buffer; meanwhile t2's publish pushed a new handle and went on.
C34_Witness ==
  /\ wpc = "clear"
  /\ \E v \in unique_ptrs : Alive(v) /\ UseCount(v) = 1
  /\ pc["t2"] = "update_return"
  /\ old["t2"] \in ptrs_
  /\ notified_

\* The place, in the order of evaluation of the arguments of thread t's
\* make_guard_pack call, of the first argument that is cell c.
FirstEval(t, c) ==
  LET n == Len(pack[t].args)
      at == {p \in 1 .. n : pack[t].args[pack[t].order[p]] = c}
  IN CHOOSE p \in at : \A q \in at : p <= q

\* The pack thread t holds has, of cell a, the value it held before its first
\* publish and, of cell b, the value published to it, the publish to a being
\* the earlier one of the writer (the Ts are numbered as they are made).
Torn(t, a, b) ==
  /\ pack[t].phase = "held"
  /\ pack[t].before[a] = 0 /\ pack[t].before[b] = 0
  /\ Len(stored[a]) = 2 /\ Len(stored[b]) = 2
  /\ stored[a][2] < stored[b][2]
  /\ \E i, j \in PackGuards(t) :
       /\ guards[t][i].cell = a /\ guards[t][i].ptr = stored[a][1]
       /\ guards[t][j].cell = b /\ guards[t][j].ptr = stored[b][2]

\* C35 (no cross-cell atomicity): a guard_pack over two cells can hold the
\* value one cell had before a publish together with the value a later
\* publish gave the other (the witness); each load of the build is fresh on
\* its own, so this happens only when the cell of the earlier publish was the
\* one loaded first.
C35_NoCrossCellAtomicity ==
  \A t \in Threads : \A a, b \in Cells :
    a # b /\ Torn(t, a, b) => FirstEval(t, a) < FirstEval(t, b)

\* The writer published to cell 1 and then to cell 2 while t1 built a pack
\* over (1, 2): the pack holds the value cell 1 had before the publish and
\* the value published to cell 2.
C35_Witness ==
  /\ pack["t1"].args = << 1, 2 >>
  /\ pack["t1"].base = 0
  /\ Torn("t1", 1, 2)
  /\ tlsIdx[1]["t1"] = 1 /\ tlsIdx[2]["t1"] = 2
  /\ returned[1] = 2 /\ returned[2] = 2

\* C36 (no release request without a guard): a slot with no live guard
\* (ref_count = 0) has to_release = FALSE: the destruction of the last guard
\* carries out and clears the request, which so never reaches a later read
\* scope.
C36_NoRequestWithoutGuard ==
  \A c \in Cells, t \in Threads :
    tls[c][t].ref_count = 0 => ~tls[c][t].to_release

\* The last guard of the slot has gone with a release scheduled through
\* tls.schedule_release(): the slot is released, its request cleared, and t1
\* holds no guard.
C36_Witness ==
  /\ guards["t1"] = << >>
  /\ pc["t1"] = "idle"
  /\ tls[1]["t1"].init /\ tls[1]["t1"].ref_count = 0
  /\ tls[1]["t1"].value = Null /\ value_[1] # Null
  /\ lastCtl[1]["t1"].closed[1] = "schedule_release"

\* C37 (pointer and handle agree): in every slot the raw pointer is the
\* address of the T its handle owns, or both are empty: the first touch, a
\* reconcile and a scheduled release write the two together.
C37_PtrIsHandle ==
  \A c \in Cells, t \in Threads : tls[c][t].ptr = tls[c][t].value

\* t1's slot caches the published value at version 1, which its pointer and
\* handle both give, and t1 holds a guard on it; t2's slot took the published
\* value too and was then released: its version is back at 0, its pointer and
\* handle are both empty.
C37_Witness ==
  /\ tls[1]["t1"].init /\ tls[1]["t1"].version = 1
  /\ tls[1]["t1"].ptr = stored[1][2] /\ tls[1]["t1"].ptr # Null
  /\ guards["t1"] # << >>
  /\ version_[1] = 1
  /\ tls[1]["t2"].init /\ tls[1]["t2"].version = 0
  /\ tls[1]["t2"].ptr = Null /\ tls[1]["t2"].ref_count = 0

\* A publish on cell c is between its store of value_ and its bump of version_.
InFlight(c) == \E w \in Threads : pc[w] = "update_version" /\ cur[w] = c

\* C38 (quiescent cache consistency): when no publish on a cell is between
\* its store and its bump, every initialised slot of the cell whose version
\* is the source's version holds the handle the source holds.
C38_QuiescentCacheConsistency ==
  \A c \in cells :
    ~InFlight(c) =>
      \A t \in Threads :
        tls[c][t].init /\ tls[c][t].version = version_[c] =>
          tls[c][t].value = value_[c]

\* Two publishes have returned and none is running; t1's slot, reconciled by
\* its guard's load, has the source's version and holds the source's value,
\* a T.
C38_Witness ==
  /\ \A t \in Threads : pc[t] = "idle"
  /\ version_[1] = 2
  /\ tls[1]["t1"].init /\ tls[1]["t1"].version = 2
  /\ tls[1]["t1"].value = value_[1] /\ value_[1] # Null
  /\ Len(guards["t1"]) = 1
  /\ tlsIdx[1]["t1"] = 3

\* 2^64 - 1, the uint64_t that 0 decrements to (written as in Dec64).
MaxU64 == Dec64(0)

\* C39 (scheduled release at version 0): the release of a slot whose version
\* is 0 leaves the version at 2^64 - 1, which is not the source's version,
\* with pointer and handle empty; and the outermost load that follows on a
\* cell never published to reconciles: it leaves the slot at version 0 on the
\* cell's initial value, which its guard gives.
C39_ReleaseAtVersionZero ==
  [][\A t \in Threads, c \in Cells :
       /\ LastGuardDies(t, c) /\ tls[c][t].to_release /\ tls[c][t].version = 0 =>
            /\ tls'[c][t].version = MaxU64
            /\ tls'[c][t].version # version_[c]
            /\ tls'[c][t].ptr = Null /\ tls'[c][t].value = Null
       /\ OutermostLoadEnds(t) /\ Returned(t).cell = c /\ Len(stored[c]) = 1 =>
            /\ tls'[c][t].version = 0
            /\ tls'[c][t].value = stored[c][1]
            /\ Returned(t).ptr = stored[c][1]]_vars

\* The cell holds its initial T and has never been published to; t1's slot
\* was released at version 0, and t1's next load has found the versions to
\* differ and is about to take the source's value.
C39_Witness ==
  /\ Len(stored[1]) = 1 /\ value_[1] # Null /\ version_[1] = 0
  /\ \A w \in Threads : pc[w] \notin UpdatePcs
  /\ tls[1]["t1"].init /\ tls[1]["t1"].version = MaxU64
  /\ tls[1]["t1"].ptr = Null
  /\ pc["t1"] = "guard_value" /\ new_version["t1"] = 0

=============================================================================
